---- MODULE Spec2Model ----
(***************************************************************************)
(* A model of port-cli's data-transfer engine: the dependency resolver of  *)
(* migrate (migrator.py), the replay of import (importer.py), the          *)
(* collection of export (exporter.py), the archive codec shared by export  *)
(* and import, and the skip-if-exists replay of migrate.                   *)
(*                                                                         *)
(* Identifiers are sequences of tokens, so that "starts with an underscore"*)
(* and "contains 409" are computed on the identifier: "_core" is           *)
(* <<"_", "core">>, "b409" is <<"b", "409">>.  A missing or empty          *)
(* identifier (None, "") is the empty sequence, which is what Python's     *)
(* "not identifier" tests.                                                 *)
(***************************************************************************)
EXTENDS Integers, Sequences, FiniteSets, TLC

VARIABLES
    \* ---- MigrateModule._resolve_dependencies, one loop iteration per step
    rpc,        \* "off", "start", "loop", "ret", "loop2", "ret2"
    rall,       \* all_blueprints (the universe)
    rsel,       \* selected_blueprints of the first call
    rst,        \* the locals: result, selected_ids, to_check, checked
    rres1,      \* what the first call returned
    rres2,      \* what the call on the first call's result returned
    riters,     \* loop iterations of the running call
    \* ---- the file system and the target organization's API
    fs,         \* path -> the file there (NoFile when absent)
    calls,      \* every API call issued so far, in order, with its outcome
    tgt,        \* the resources known to exist on the target
    apiDown,    \* TRUE when the API cannot be reached: every call raises
    \* ---- ImportModule.execute, one replayed record per step
    ipc,        \* "start", "replay", "done"
    iargs,      \* the keyword arguments of execute
    idata,      \* the data loaded from the archive
    ipos,       \* the replay's position: block k, record i of that block
    result,     \* _import_data's result: the counters and the errors
    iret,       \* the ModuleResult returned
    runs,       \* the earlier runs of the import on this target, oldest first
    \* ---- the source organization's API
    org,        \* the records the source organization holds, by kind
    faults,     \* which reads of the source raise, and what
    \* ---- ExportModule.execute
    epc,        \* "start", "done"
    eargs,      \* the keyword arguments of execute
    edata,      \* the snapshot _collect_data returned
    ewarn,      \* the warnings printed while collecting
    eret,       \* the ModuleResult returned
    \* ---- MigrateModule.execute, one replayed record per step
    mpc,        \* "start", "target", "blueprints", "entities", "done"
    margs,      \* the keyword arguments of execute
    mdata,      \* source_data, what _export_from_source returned
    mexisting,  \* the identifiers of existing_blueprints
    mpos,       \* the index of the record the loop is at
    mresult,    \* _import_to_target's result
    mret,       \* the ModuleResult returned
    mwarn,      \* the warnings printed while collecting from the source
    \* ---- one PortAPIClient instance and the clock it reads
    token,      \* self._token (None before the first fetch)
    token_expiry, \* self._token_expiry, in seconds
    clock,      \* time.time(), in seconds
    tcalls,     \* the calls of _get_token and _request so far, in order
    \* ---- ConfigManager.load
    cpc,        \* "off", "start", "done"
    cfile,      \* the configuration file at config_path
    cenv,       \* os.environ
    cret        \* what load returned or raised

resolveVars == <<rpc, rall, rsel, rst, rres1, rres2, riters>>

envVars == <<fs, calls, tgt, apiDown>>

importVars == <<ipc, iargs, idata, ipos, result, iret, runs>>

srcVars == <<org, faults>>

exportVars == <<epc, eargs, edata, ewarn, eret>>

migrateVars == <<mpc, margs, mdata, mexisting, mpos, mresult, mret, mwarn>>

clientVars == <<token, token_expiry, clock, tcalls>>

configVars == <<cpc, cfile, cenv, cret>>

vars == <<resolveVars, envVars, importVars, srcVars, exportVars, migrateVars,
          clientVars, configVars>>

(***************************************************************************)
(* Sequence helpers.                                                       *)
(***************************************************************************)
None == <<>>

Falsy(x) == x = <<>>

Range(s) == {s[i] : i \in 1..Len(s)}

Last(s) == s[Len(s)]

Front(s) == SubSeq(s, 1, Len(s) - 1)

\* The sequences over S of length at most n.
SeqsUpTo(S, n) == UNION {[1..k -> S] : k \in 0..n}

\* The orders in which the elements of a finite set can be listed.
Perms(S) == {p \in [1..Cardinality(S) -> S] : Range(p) = S}

RECURSIVE SelectSeqBy(_, _)
\* [x for x in s if x.identifier in ids]
SelectSeqBy(s, ids) ==
    IF s = <<>> THEN <<>>
    ELSE IF s[1].identifier \in ids
         THEN <<s[1]>> \o SelectSeqBy(Tail(s), ids)
         ELSE SelectSeqBy(Tail(s), ids)

IdsOf(bps) == {bps[i].identifier : i \in 1..Len(bps)}

(***************************************************************************)
(* The dependency resolver.                                                *)
(***************************************************************************)
\* Bounds of the resolver's inputs.
MaxEdges == 2

IdA == <<"service">>
IdB == <<"deployment">>
IdC == <<"_", "team">>

ResolveIds == <<IdA, IdB, IdC>>

\* A relation's target: a blueprint identifier, or none.
Targets == Range(ResolveIds) \cup {None}

\* all_blueprints_map = {bp["identifier"]: bp for bp in all_blueprints}:
\* a later blueprint of the same identifier replaces an earlier one.
InMap(all, id) == \E i \in 1..Len(all) : all[i].identifier = id

MapGet(all, id) ==
    LET i == CHOOSE i \in 1..Len(all) :
                 /\ all[i].identifier = id
                 /\ \A j \in (i + 1)..Len(all) : all[j].identifier # id
    IN all[i]

\* The locals after lines 193-198, with to_check = list(selected_ids) in the
\* order `order` (the iteration order of a Python set is not specified).
ResolveStart(selected, order) ==
    [result       |-> selected,
     selected_ids |-> IdsOf(selected),
     to_check     |-> order,
     checked      |-> {}]

\* MUTANT: the dependency is added to the result but not enqueued, so its own
\* relations are never followed.
AddDepNoEnqueue(st, all, target) ==
    IF ~Falsy(target) /\ target \notin st.selected_ids /\ InMap(all, target)
    THEN [st EXCEPT !.result = Append(@, MapGet(all, target)),
                    !.selected_ids = @ \cup {target}]
    ELSE st

\* Lines 213-219: one relation of the blueprint being checked.
AddDep(st, all, target) ==
    IF ~Falsy(target) /\ target \notin st.selected_ids /\ InMap(all, target)
    THEN [st EXCEPT !.result = Append(@, MapGet(all, target)),
                    !.selected_ids = @ \cup {target},
                    !.to_check = Append(@, target)]
    ELSE st

RECURSIVE AddDeps(_, _, _)
\* Lines 211-219: for relation_id, relation in relations.items().
AddDeps(st, all, targets) ==
    IF targets = <<>> THEN st
    ELSE AddDeps(AddDep(st, all, targets[1]), all, Tail(targets))

\* Lines 200-219: one iteration of `while to_check`.
ResolveIter(st, all) ==
    LET blueprint_id == Last(st.to_check)
        popped == [st EXCEPT !.to_check = Front(@)]
    IN IF blueprint_id \in st.checked THEN popped
       ELSE LET marked == [popped EXCEPT !.checked = @ \cup {blueprint_id}]
            IN IF ~InMap(all, blueprint_id) THEN marked
               ELSE AddDeps(marked, all, MapGet(all, blueprint_id).relations)

RECURSIVE ResolveLoop(_, _)
\* Lines 200-221: the whole loop, and the result returned.
ResolveLoop(st, all) ==
    IF st.to_check = <<>> THEN st.result
    ELSE ResolveLoop(ResolveIter(st, all), all)

\* MUTANT: no dependency is added.
ResolveNothing(all, selected, order) == selected

\* _resolve_dependencies(all_blueprints, selected_blueprints), with the set
\* iteration order of line 197 given.
ResolveDependencies(all, selected, order) ==
    ResolveLoop(ResolveStart(selected, order), all)

\* ---- the inputs of the resolver
\* A universe: the blueprints of a non-empty prefix-closed choice of
\* ResolveIds, in that order, carrying at most MaxEdges relations in all.
EdgeLists == SeqsUpTo((1..Len(ResolveIds)) \X Targets, MaxEdges)

RECURSIVE RelationsOf(_, _)
RelationsOf(edges, n) ==
    IF edges = <<>> THEN <<>>
    ELSE IF edges[1][1] = n
         THEN <<edges[1][2]>> \o RelationsOf(Tail(edges), n)
         ELSE RelationsOf(Tail(edges), n)

Universe(present, edges) ==
    LET bp(n) == [identifier |-> ResolveIds[n], relations |-> RelationsOf(edges, n)]
        RECURSIVE build(_)
        build(n) == IF n > Len(ResolveIds) THEN <<>>
                    ELSE IF n \in present THEN <<bp(n)>> \o build(n + 1)
                    ELSE build(n + 1)
    IN build(1)

\* The universes carrying at most n relations.
UniversesUpTo(n) ==
    {Universe(present, edges) :
        present \in {{1, 2}, {1, 2, 3}},
        edges \in {e \in EdgeLists :
                      /\ Len(e) <= n
                      /\ \A i \in 1..Len(e) - 1 : e[i][1] <= e[i + 1][1]
                      /\ \A i \in 1..Len(e) : e[i][1] \in {1, 2, 3}}}

Universes == UniversesUpTo(MaxEdges)

\* ---- larger universes, for the order of the result
MaxOrderEdges == 3

IdD == <<"cluster">>
IdE == <<"region">>

OrderIds == <<IdA, IdB, IdC, IdD, IdE>>

\* The five blueprints of OrderIds carrying at most n relations in all, none
\* of a blueprint to itself.
OrderUniversesUpTo(n) ==
    LET pairs == {p \in (1..Len(OrderIds)) \X Range(OrderIds) : OrderIds[p[1]] # p[2]}
        lists == {e \in SeqsUpTo(pairs, n) :
                     \A i \in 1..Len(e) - 1 : e[i][1] <= e[i + 1][1]}
    IN {[k \in 1..Len(OrderIds) |->
            [identifier |-> OrderIds[k], relations |-> RelationsOf(e, k)]] :
        e \in lists}

OrderUniverses == OrderUniversesUpTo(MaxOrderEdges)

\* What the resolver's steps leave alone.
ResolveFrame ==
    UNCHANGED <<envVars, importVars, srcVars, exportVars, migrateVars, clientVars, configVars>>

\* Lines 193-198 of the first call.
ResolveCall ==
    /\ rpc = "start"
    /\ \E order \in Perms(IdsOf(rsel)) : rst' = ResolveStart(rsel, order)
    /\ rpc' = "loop"
    /\ riters' = 0
    /\ UNCHANGED <<rall, rsel, rres1, rres2>>
    /\ ResolveFrame

\* One iteration of the loop, in either call.
ResolveLoopStep ==
    /\ rpc \in {"loop", "loop2"}
    /\ rst.to_check # <<>>
    /\ rst' = ResolveIter(rst, rall)
    /\ riters' = riters + 1
    /\ UNCHANGED <<rpc, rall, rsel, rres1, rres2>>
    /\ ResolveFrame

\* Line 221 of the first call.
ResolveReturn ==
    /\ rpc = "loop"
    /\ rst.to_check = <<>>
    /\ rres1' = rst.result
    /\ rpc' = "ret"
    /\ UNCHANGED <<rall, rsel, rst, rres2, riters>>
    /\ ResolveFrame

\* The resolver called again on what it returned.
ResolveAgain ==
    /\ rpc = "ret"
    /\ \E order \in Perms(IdsOf(rres1)) : rst' = ResolveStart(rres1, order)
    /\ rpc' = "loop2"
    /\ riters' = 0
    /\ UNCHANGED <<rall, rsel, rres1, rres2>>
    /\ ResolveFrame

\* Line 221 of the second call.
ResolveReturn2 ==
    /\ rpc = "loop2"
    /\ rst.to_check = <<>>
    /\ rres2' = rst.result
    /\ rpc' = "ret2"
    /\ UNCHANGED <<rall, rsel, rst, rres1, riters>>
    /\ ResolveFrame

(***************************************************************************)
(* Records, snapshots and archives.                                        *)
(*                                                                         *)
(* A resource record is a function from field names to values; a snapshot  *)
(* is a Python dict, modelled as the sequence of its items in insertion    *)
(* order.                                                                  *)
(***************************************************************************)
\* record.get(field)
Get(rec, field) == IF field \in DOMAIN rec THEN rec[field] ELSE None

\* MUTANT: no field is removed.
WithoutNothing(rec, fields) == rec

\* {k: v for k, v in record.items() if k not in fields}
Without(rec, fields) == [k \in DOMAIN rec \ fields |-> rec[k]]

DictHas(d, key) == \E i \in 1..Len(d) : d[i].key = key

\* d.get(key, [])
DictGet(d, key) ==
    IF DictHas(d, key)
    THEN d[CHOOSE i \in 1..Len(d) : d[i].key = key].value
    ELSE <<>>

\* d[key] = value
DictSet(d, key, value) ==
    IF DictHas(d, key)
    THEN [i \in 1..Len(d) |-> IF d[i].key = key THEN [key |-> key, value |-> value]
                                ELSE d[i]]
    ELSE Append(d, [key |-> key, value |-> value])

\* The eight resource kinds, in the key order of the exporter's snapshot.
EightKinds ==
    <<"blueprints", "entities", "scorecards", "actions",
      "teams", "automations", "pages", "integrations">>

Kinds == Range(EightKinds)

(***************************************************************************)
(* The resource API as the replay sees it.  A call either returns or       *)
(* raises; str(e) of what it raises is a sequence of tokens.  An HTTP      *)
(* status error names the status, its reason phrase and the URL requested, *)
(* which holds the identifiers the path was built from.                    *)
(***************************************************************************)
Reason(status) ==
    CASE status = "409" -> "Conflict"
      [] status = "422" -> "Unprocessable Entity"
      [] status = "404" -> "Not Found"
      [] status = "410" -> "Gone"
      [] OTHER -> "Error"

\* str(e) of the exception a failed call raises.
ErrorMsg(status, url) ==
    IF status = "transport" THEN <<"ConnectError">>
    ELSE <<status, Reason(status)>> \o url

\* The path of each request, by client method.
CreateUrl(kind, parent) ==
    CASE kind = "blueprints"  -> <<"blueprints">>
      [] kind = "entities"    -> <<"blueprints">> \o parent \o <<"entities">>
      [] kind = "scorecards"  -> <<"blueprints">> \o parent \o <<"scorecards">>
      [] kind = "actions"     -> <<"blueprints">> \o parent \o <<"actions">>
      [] kind = "teams"       -> <<"teams">>
      [] kind = "automations" -> <<"actions">>
      [] kind = "pages"       -> <<"pages">>

UpdateUrl(kind, parent, id) ==
    IF kind = "integrations" THEN <<"integration">> \o id \o <<"config">>
    ELSE CreateUrl(kind, parent) \o id

\* What a create call can do: raise a transport error when the API cannot be
\* reached; else answer 409 when the resource exists, and otherwise create it
\* or reject it (422).  Whether a resource exists on the target is not known
\* before the first call on it.
CreateOutcomes(key) ==
    IF apiDown THEN {"transport"}
    ELSE IF key \in tgt THEN {"409"}
    ELSE {"ok", "409", "422"}

\* What an update call can do, `known` being the resources known to exist.
UpdateOutcomes(key, known) ==
    IF apiDown THEN {"transport"}
    ELSE IF key \in known THEN {"ok", "422"}
    ELSE {"ok", "404"}

\* MUTANT: the call is issued on the source client.
CallOnSource(op, kind, parent, id, body, status) ==
    [client |-> "source", op |-> op, kind |-> kind, parent |-> parent,
     id |-> id, body |-> body, status |-> status]

Call(op, kind, parent, id, body, status) ==
    [client |-> "target", op |-> op, kind |-> kind, parent |-> parent,
     id |-> id, body |-> body, status |-> status]

(***************************************************************************)
(* ImportModule.                                                           *)
(***************************************************************************)
NoFile == [container |-> "none"]

\* json.dumps / json.loads of a JSON value.
JsonDumps(v) == [json |-> v]

JsonLoads(text) == text.json

\* Path.suffix and Path.suffixes: a path is the list of its suffixes.
Suffix(path) == IF path = <<>> THEN "" ELSE Last(path)

RECURSIVE JoinTokens(_)
JoinTokens(toks) ==
    IF toks = <<>> THEN "" ELSE toks[1] \o JoinTokens(Tail(toks))

\* member.name.replace(".json", "")
StripJson(name) == JoinTokens(SelectSeq(name, LAMBDA t : t # ".json"))

RECURSIVE LoadMembers(_, _)
\* importer.py lines 110-116: the members of the tar, in order.
LoadMembers(members, data) ==
    IF members = <<>> THEN data
    ELSE LET m == members[1]
         IN IF m.isfile /\ m.name # <<>> /\ Last(m.name) = ".json"
            THEN LoadMembers(Tail(members),
                             DictSet(data, StripJson(m.name), JsonLoads(m.content)))
            ELSE LoadMembers(Tail(members), data)

\* _load_tar: tarfile.open(path, "r:gz") raises on what is no gzip tar.
LoadTar(file) ==
    IF file.container = "targz"
    THEN [ok |-> TRUE, data |-> LoadMembers(file.members, <<>>)]
    ELSE [ok |-> FALSE, error |-> "ReadError: not a gzip file"]

\* _load_data: the loader is chosen by the path's suffix.
LoadData(path, file) ==
    IF Suffix(path) = ".json"
    THEN IF file.container = "json"
         THEN [ok |-> TRUE, data |-> JsonLoads(file.doc)]
         ELSE [ok |-> FALSE, error |-> "JSONDecodeError"]
    ELSE IF Suffix(path) = ".gz" \/ ".tar" \in Range(path)
    THEN LoadTar(file)
    ELSE [ok |-> FALSE, error |-> "Unsupported file format"]

\* MUTANT: the data is not validated.
ValidateDataNothing(data) == TRUE

\* _validate_data: does not raise.
ValidateData(data) == DictHas(data, "blueprints")

\* should_import(resource_type)
ShouldImport(include, kind) == ~include.given \/ kind \in include.kinds

\* MUTANT: entities are replayed before blueprints.
EntitiesFirst ==
    <<"entities", "blueprints", "scorecards", "actions",
      "teams", "automations", "pages", "integrations">>

\* The order of the blocks of _import_data (lines 161-371).
KindOrder ==
    <<"blueprints", "entities", "scorecards", "actions",
      "teams", "automations", "pages", "integrations">>

\* The guard of block k (lines 162, 190, 216, 245, 274, 297, 325, 361).
BlockRuns(args, k) ==
    /\ ShouldImport(args.include_resources, KindOrder[k])
    /\ KindOrder[k] = "entities" => ~args.skip_entities

RECURSIVE NextPos(_, _, _, _)
\* The next record the replay looks at, from record i of block k on: the
\* blocks run in order, each over data.get(kind, []).
NextPos(data, args, k, i) ==
    IF k > Len(KindOrder) THEN [k |-> k, i |-> 1]
    ELSE IF BlockRuns(args, k) /\ i <= Len(DictGet(data, KindOrder[k]))
    THEN [k |-> k, i |-> i]
    ELSE NextPos(data, args, k + 1, 1)

CounterNames ==
    {k \o "_created" : k \in Kinds \ {"integrations"}}
        \cup {k \o "_updated" : k \in Kinds}

\* importer.py lines 136-153
EmptyResult == [counts |-> [c \in CounterNames |-> 0], errors |-> <<>>]

Bump(res, counter) == [res EXCEPT !.counts[counter] = @ + 1]

\* f"{label} {identifier}: {detail}"
ErrorString(label, id, detail) == [label |-> label, id |-> id, detail |-> detail]

AddError(res, label, id, detail) ==
    [res EXCEPT !.errors = Append(@, ErrorString(label, id, detail))]

\* MUTANT: a conflict is never recognised.
IsConflictNever(msg) == FALSE

\* "409" in error_msg or "Conflict" in error_msg
IsConflict(msg) == \E i \in 1..Len(msg) : msg[i] = "409" \/ msg[i] = "Conflict"

\* MUTANT: no blueprint counts as a system blueprint.
IsSystemIdNever(id) == FALSE

\* identifier.startswith("_")
IsSystemId(id) == id # <<>> /\ id[1] = "_"

SystemFields == {"createdBy", "updatedBy", "createdAt", "updatedAt", "id"}

PageOnlyFields == {"protected", "after", "section", "sidebar"}

\* MUTANT: no page type is platform-managed.
SystemPageTypesNone == {}

SystemPageTypes ==
    {"entity", "blueprint-entities", "home", "audit-log", "runs-history",
     "user", "team", "run", "users-and-teams"}

NoData == [none |-> TRUE]

ModuleResult(success, message, data, error) ==
    [success |-> success, message |-> message, data |-> data, error |-> error]

NoResult == ModuleResult(FALSE, "", NoData, "")

(***************************************************************************)
(* The archive writers of ExportModule.                                    *)
(***************************************************************************)
\* _write_json: json.dump(data, f, indent=2)
WriteJson(data) == [container |-> "json", doc |-> JsonDumps(data)]

\* MUTANT: the members are written in the reverse of the dict's order.
WriteTarReversed(data) ==
    [container |-> "targz",
     members |-> [i \in 1..Len(data) |->
                     [name |-> <<data[Len(data) + 1 - i].key, ".json">>,
                      isfile |-> TRUE,
                      content |-> JsonDumps(data[Len(data) + 1 - i].value)]]]

\* _write_tar: one member <kind>.json per item of the dict, in its order.
WriteTar(data) ==
    [container |-> "targz",
     members |-> [i \in 1..Len(data) |->
                     [name |-> <<data[i].key, ".json">>,
                      isfile |-> TRUE,
                      content |-> JsonDumps(data[i].value)]]]

(***************************************************************************)
(* ExportModule: the collection from the source organization.              *)
(*                                                                         *)
(* The source organization is given as the records it holds, by kind; a    *)
(* read of the API returns them, or raises as `faults` says.               *)
(***************************************************************************)
NoFaults == [down |-> FALSE, bad |-> {}, status |-> "500"]

\* The status of a read: "ok", or what it raises.
ReadStatus(f, op, parent) ==
    IF f.down THEN "transport"
    ELSE IF <<op, parent>> \in f.bad THEN f.status
    ELSE "ok"

ReadCall(op, kind, parent, status) ==
    [client |-> "source", op |-> op, kind |-> kind, parent |-> parent,
     id |-> None, body |-> NoData, status |-> status]

RECURSIVE SelectByField(_, _, _)
\* The records of s whose field holds the value v.
SelectByField(s, field, v) ==
    IF s = <<>> THEN <<>>
    ELSE IF Get(s[1], field) = v
         THEN <<s[1]>> \o SelectByField(Tail(s), field, v)
         ELSE SelectByField(Tail(s), field, v)

\* What a read returns when it does not raise.
ReadResult(srcOrg, op, parent) ==
    CASE op = "get_blueprints"   -> DictGet(srcOrg, "blueprints")
      [] op = "get_entities"     -> SelectByField(DictGet(srcOrg, "entities"), "blueprint", parent)
      [] op = "get_scorecards"   ->
           SelectByField(DictGet(srcOrg, "scorecards"), "blueprintIdentifier", parent)
      [] op = "get_actions"      ->
           SelectByField(DictGet(srcOrg, "actions"), "blueprintIdentifier", parent)
      [] op = "get_teams"        -> DictGet(srcOrg, "teams")
      [] op = "get_all_actions"  -> DictGet(srcOrg, "automations")
      [] op = "get_pages"        -> DictGet(srcOrg, "pages")
      [] op = "get_integrations" -> DictGet(srcOrg, "integrations")

ReadUrl(op, parent) ==
    CASE op = "get_blueprints"   -> <<"blueprints">>
      [] op = "get_entities"     -> <<"blueprints">> \o parent \o <<"entities">>
      [] op = "get_scorecards"   -> <<"blueprints">> \o parent \o <<"scorecards">>
      [] op = "get_actions"      -> <<"blueprints">> \o parent \o <<"actions">>
      [] op = "get_teams"        -> <<"teams">>
      [] op = "get_all_actions"  -> <<"actions">>
      [] op = "get_pages"        -> <<"pages">>
      [] op = "get_integrations" -> <<"integration">>

\* "410 Gone" in error_msg and "actions" in error_msg
IsExpectedGone(msg) ==
    /\ \E i \in 1..Len(msg) - 1 : msg[i] = "410" /\ msg[i + 1] = "Gone"
    /\ \E i \in 1..Len(msg) : msg[i] = "actions"

\* MUTANT: the blueprint filter is ignored.
FilterBlueprintsIgnored(all_blueprints, blueprint_filter) == all_blueprints

\* [bp for bp in all_blueprints if bp.get("identifier") in blueprint_filter],
\* or all of them when the filter is None or empty.
FilterBlueprints(all_blueprints, blueprint_filter) ==
    IF blueprint_filter = {} THEN all_blueprints
    ELSE SelectSeq(all_blueprints, LAMBDA bp : Get(bp, "identifier") \in blueprint_filter)

\* MUTANT: the include filter is ignored.
ShouldCollectAlways(include, kind) == TRUE

\* should_collect(resource_type)
ShouldCollect(include, kind) == ~include.given \/ kind \in include.kinds

\* exporter.py lines 113-122
EmptySnapshot == [k \in 1..Len(EightKinds) |-> [key |-> EightKinds[k], value |-> <<>>]]

\* The collector's locals: the snapshot so far, the calls made, the warnings
\* printed.
CollectState(data, made, warnings) ==
    [data |-> data, calls |-> made, warnings |-> warnings]

\* MUTANT: a failing read empties what was gathered of the kind.
FetchIntoForgetting(st, srcOrg, f, op, kind, parent) ==
    LET status == ReadStatus(f, op, parent)
        made == Append(st.calls, ReadCall(op, kind, parent, status))
    IN IF status = "ok"
       THEN [raised |-> FALSE,
             st |-> [st EXCEPT !.calls = made,
                               !.data = DictSet(@, kind,
                                                DictGet(@, kind) \o ReadResult(srcOrg, op, parent))]]
       ELSE [raised |-> TRUE,
             st |-> [st EXCEPT !.calls = made, !.data = DictSet(@, kind, <<>>)]]

\* One call inside the per-blueprint try (lines 163-175): st after it, and
\* whether it raised.
FetchInto(st, srcOrg, f, op, kind, parent) ==
    LET status == ReadStatus(f, op, parent)
        made == Append(st.calls, ReadCall(op, kind, parent, status))
    IN IF status = "ok"
       THEN [raised |-> FALSE,
             st |-> [st EXCEPT !.calls = made,
                               !.data = DictSet(@, kind,
                                                DictGet(@, kind) \o ReadResult(srcOrg, op, parent))]]
       ELSE LET msg == ErrorMsg(status, ReadUrl(op, parent))
            IN [raised |-> TRUE,
                st |-> [st EXCEPT !.calls = made,
                                  !.warnings = IF IsExpectedGone(msg) THEN @
                                               ELSE Append(@, [about |-> parent, detail |-> msg])]]

\* The next statement of the try: skipped once a call has raised, and when
\* the kind is not wanted (the `if` of lines 163, 168, 172).
FetchNext(prev, wanted, srcOrg, f, op, kind, parent) ==
    IF prev.raised THEN prev
    ELSE IF wanted THEN FetchInto(prev.st, srcOrg, f, op, kind, parent)
    ELSE prev

\* Lines 158-183: the body of `for blueprint in blueprints`.
CollectForBlueprint(st, srcOrg, f, args, blueprint) ==
    LET blueprint_id == Get(blueprint, "identifier")
        inc == args.include_resources
        e == FetchNext([raised |-> FALSE, st |-> st],
                       ~args.skip_entities /\ ShouldCollect(inc, "entities"),
                       srcOrg, f, "get_entities", "entities", blueprint_id)
        s == FetchNext(e, ShouldCollect(inc, "scorecards"),
                       srcOrg, f, "get_scorecards", "scorecards", blueprint_id)
        a == FetchNext(s, ShouldCollect(inc, "actions"),
                       srcOrg, f, "get_actions", "actions", blueprint_id)
    IN IF Falsy(blueprint_id) THEN st ELSE a.st

RECURSIVE CollectForBlueprints(_, _, _, _, _)
CollectForBlueprints(st, srcOrg, f, args, blueprints) ==
    IF blueprints = <<>> THEN st
    ELSE CollectForBlueprints(CollectForBlueprint(st, srcOrg, f, args, blueprints[1]),
                              srcOrg, f, args, Tail(blueprints))

\* Lines 186-217: one of the four organization-wide reads, each in its own
\* try: a failure is printed as a warning and the kind stays empty.
CollectWhole(st, srcOrg, f, args, op, kind) ==
    LET status == ReadStatus(f, op, None)
        made == Append(st.calls, ReadCall(op, kind, None, status))
    IN IF ~ShouldCollect(args.include_resources, kind) THEN st
       ELSE IF status = "ok"
       THEN [st EXCEPT !.calls = made,
                       !.data = DictSet(@, kind, ReadResult(srcOrg, op, None))]
       ELSE [st EXCEPT !.calls = made,
                       !.warnings = Append(@, [about |-> <<kind>>,
                                               detail |-> ErrorMsg(status, ReadUrl(op, None))])]

\* _collect_data (lines 97-219).  get_blueprints is called outside any try:
\* when it raises, so does _collect_data.
CollectData(srcOrg, f, args) ==
    LET inc == args.include_resources
        bpStatus == ReadStatus(f, "get_blueprints", None)
        bpCall == ReadCall("get_blueprints", "blueprints", None, bpStatus)
        fetched == FilterBlueprints(ReadResult(srcOrg, "get_blueprints", None), args.blueprints)
        first == ShouldCollect(inc, "blueprints")
        st0 == CollectState(EmptySnapshot, <<>>, <<>>)
        st1 == IF first
               THEN [st0 EXCEPT !.calls = <<bpCall>>,
                                !.data = DictSet(@, "blueprints", fetched)]
               ELSE st0
        blueprints1 == IF first THEN fetched ELSE <<>>
        second == /\ blueprints1 = <<>>
                  /\ \/ ShouldCollect(inc, "entities")
                     \/ ShouldCollect(inc, "scorecards")
                     \/ ShouldCollect(inc, "actions")
        st2 == IF second THEN [st1 EXCEPT !.calls = Append(@, bpCall)] ELSE st1
        blueprints == IF second THEN fetched ELSE blueprints1
        st3 == CollectForBlueprints(st2, srcOrg, f, args, blueprints)
        st4 == CollectWhole(st3, srcOrg, f, args, "get_teams", "teams")
        st5 == CollectWhole(st4, srcOrg, f, args, "get_all_actions", "automations")
        st6 == CollectWhole(st5, srcOrg, f, args, "get_pages", "pages")
        st7 == CollectWhole(st6, srcOrg, f, args, "get_integrations", "integrations")
    IN IF (first \/ second) /\ bpStatus # "ok"
       THEN [raised |-> TRUE, error |-> ErrorMsg(bpStatus, ReadUrl("get_blueprints", None)),
             st |-> CollectState(EmptySnapshot, <<bpCall>>, <<>>)]
       ELSE [raised |-> FALSE, error |-> <<>>, st |-> st7]

\* ExportModule.validate, line 32
ValidFormat(format) == format \in {"json", "tar"}

(***************************************************************************)
(* The archives the import is run on.                                      *)
(***************************************************************************)
\* The paths tried, each the list of its suffixes (Path.suffixes).
Paths == {<<".json">>, <<".tar", ".gz">>, <<".txt">>}

\* The most records a snapshot holds, all kinds together.
MaxRecords == 2

\* The records tried, by kind: a plain record, and the records the replay
\* treats specially (a system blueprint, an entity of a blueprint whose
\* identifier holds "409", a platform-managed page, a record without its
\* identifier).
RecordsOf(kind) ==
    CASE kind = "blueprints" ->
           {[identifier |-> <<"svc">>],
            [identifier |-> <<"_", "core">>],
            [title |-> "Untitled"]}
      [] kind = "entities" ->
           {[identifier |-> <<"e1">>, blueprint |-> <<"svc">>],
            [identifier |-> <<"e1">>, blueprint |-> <<"b", "409">>],
            [identifier |-> <<"e1">>]}
      [] kind = "scorecards" ->
           {[identifier |-> <<"sc1">>, blueprintIdentifier |-> <<"svc">>,
             id |-> "sc_1", createdBy |-> "u1"],
            [blueprintIdentifier |-> <<"svc">>]}
      [] kind = "actions" ->
           {[identifier |-> <<"act1">>, blueprintIdentifier |-> <<"svc">>,
             id |-> "act_1", updatedAt |-> "t1"],
            [blueprintIdentifier |-> <<"svc">>]}
      [] kind = "teams" ->
           {[name |-> <<"team1">>], [description |-> "nameless"]}
      [] kind = "automations" ->
           {[identifier |-> <<"auto1">>, createdAt |-> "t0"],
            [title |-> "Untitled"]}
      [] kind = "pages" ->
           {[identifier |-> <<"page1">>, type |-> "dashboard", protected |-> "no"],
            [identifier |-> <<"page2">>, type |-> "entity"],
            [type |-> "dashboard"]}
      [] kind = "integrations" ->
           {[identifier |-> <<"int1">>], [title |-> "Untitled"]}

KindIndex(kind) == CHOOSE k \in 1..Len(EightKinds) : EightKinds[k] = kind

TaggedRecords == UNION {{[kind |-> k, rec |-> r] : r \in RecordsOf(k)} : k \in Kinds}

\* At most n records listed kind by kind.
RecordListsUpTo(n) ==
    {s \in SeqsUpTo(TaggedRecords, n) :
        \A i \in 1..Len(s) - 1 : KindIndex(s[i].kind) <= KindIndex(s[i + 1].kind)}

\* The records of a snapshot listed kind by kind.
RecordLists == RecordListsUpTo(MaxRecords)

RECURSIVE RecsOfKind(_, _)
RecsOfKind(s, kind) ==
    IF s = <<>> THEN <<>>
    ELSE IF s[1].kind = kind THEN <<s[1].rec>> \o RecsOfKind(Tail(s), kind)
    ELSE RecsOfKind(Tail(s), kind)

\* The snapshot of the eight kinds that holds the records s.
SnapshotOf(s) ==
    [k \in 1..Len(EightKinds) |->
        [key |-> EightKinds[k], value |-> RecsOfKind(s, EightKinds[k])]]

Snapshots == {SnapshotOf(s) : s \in RecordLists}

SmallSnapshots ==
    {SnapshotOf(s) : s \in {r \in RecordLists : Len(r) <= 1 /\
                              \A i \in 1..Len(r) : r[i].kind = "blueprints"}}

\* A hand-made archive without the blueprints key.
WithoutBlueprints(data) == Tail(data)

\* What the import may find: an archive as the exporter writes it under
\* a matching path, or a file that is structurally wrong (no blueprints key,
\* an unsupported suffix, a suffix that does not match the content).
ImportFiles ==
    {[path |-> <<".json">>, file |-> WriteJson(d)] : d \in Snapshots}
    \cup {[path |-> <<".tar", ".gz">>, file |-> WriteTar(d)] : d \in SmallSnapshots}
    \cup {[path |-> <<".json">>, file |-> WriteJson(WithoutBlueprints(d))] :
             d \in SmallSnapshots}
    \cup {[path |-> <<".tar", ".gz">>, file |-> WriteTar(WithoutBlueprints(d))] :
             d \in SmallSnapshots}
    \cup {[path |-> <<".txt">>, file |-> WriteJson(d)] : d \in SmallSnapshots}
    \cup {[path |-> <<".json">>, file |-> WriteTar(d)] : d \in SmallSnapshots}
    \cup {[path |-> <<".tar", ".gz">>, file |-> WriteJson(d)] : d \in SmallSnapshots}

EmptyFs == [p \in Paths |-> NoFile]

(***************************************************************************)
(* ImportModule.execute and _import_data as steps.                         *)
(***************************************************************************)
\* include_resources: None, or a list of kinds.  The lists tried name
\* blueprints or not, entities or not, and the six other kinds all or none.
IncludeChoices ==
    {[given |-> FALSE, kinds |-> {}]} \cup
    {[given |-> TRUE, kinds |-> b \cup r] :
        b \in {{}, {"blueprints"}},
        r \in {{}, Kinds \ {"blueprints"}}}

\* conflict_handler, as execute's docstring lists it (line 39).
ConflictHandlers == {"skip", "overwrite", "fail"}

ImportArgs ==
    [input_path : Paths, dry_run : BOOLEAN, conflict_handler : ConflictHandlers,
     skip_entities : BOOLEAN,
     include_resources : IncludeChoices]

NoArgs ==
    [input_path |-> <<>>, dry_run |-> FALSE, conflict_handler |-> "skip",
     skip_entities |-> FALSE,
     include_resources |-> [given |-> FALSE, kinds |-> {}]]

\* What the import's steps leave alone.
ImportFrame ==
    UNCHANGED <<resolveVars, srcVars, exportVars, migrateVars, clientVars, configVars, runs>>

AtBlock(kind) ==
    /\ ipc = "replay"
    /\ ipos.k <= Len(KindOrder)
    /\ KindOrder[ipos.k] = kind

\* The record the replay is at.
Current == DictGet(idata, KindOrder[ipos.k])[ipos.i]

\* The end of a loop iteration: on to the next record.
Advance ==
    /\ ipos' = NextPos(idata, iargs, ipos.k, ipos.i + 1)
    /\ UNCHANGED <<ipc, iargs, idata, iret, fs, apiDown>>
    /\ ImportFrame

\* `continue`: the record is passed over without a call.
PassOver ==
    /\ UNCHANGED <<calls, tgt, result>>
    /\ Advance

\* MUTANT: a conflict is passed over in silence: no update, no error.
CreateOrSkip(kind, label, parent, id, body) ==
    LET key == <<kind, parent, id>>
    IN \E c \in CreateOutcomes(key) :
         LET created == Call("create", kind, parent, None, body, c)
             error_msg == ErrorMsg(c, CreateUrl(kind, parent))
         IN /\ calls' = Append(calls, created)
            /\ tgt' = IF c \in {"ok", "409"} THEN tgt \cup {key} ELSE tgt
            /\ result' = IF c = "ok" THEN Bump(result, kind \o "_created")
                         ELSE IF IsConflict(error_msg) THEN result
                         ELSE AddError(result, label, id, error_msg)

\* The try statement of one record (lines 172-187 for a blueprint, and
\* alike in the six blocks that follow): create; on a conflict, update; any
\* other failure, and a failure of the update, is appended to the errors.
CreateThenUpdate(kind, label, parent, id, body) ==
    LET key == <<kind, parent, id>>
    IN \E c \in CreateOutcomes(key) :
         LET created == Call("create", kind, parent, None, body, c)
             error_msg == ErrorMsg(c, CreateUrl(kind, parent))
             known == IF c = "409" THEN tgt \cup {key} ELSE tgt
         IN IF c = "ok"
            THEN /\ calls' = Append(calls, created)
                 /\ tgt' = tgt \cup {key}
                 /\ result' = Bump(result, kind \o "_created")
            ELSE IF IsConflict(error_msg)
            THEN \E u \in UpdateOutcomes(key, known) :
                   LET updated == Call("update", kind, parent, id, body, u)
                   IN /\ calls' = calls \o <<created, updated>>
                      /\ IF u = "ok"
                         THEN /\ tgt' = known \cup {key}
                              /\ result' = Bump(result, kind \o "_updated")
                         ELSE /\ tgt' = known
                              /\ result' =
                                   AddError(result, label, id,
                                            ErrorMsg(u, UpdateUrl(kind, parent, id)))
            ELSE /\ calls' = Append(calls, created)
                 /\ tgt' = known
                 /\ result' = AddError(result, label, id, error_msg)

\* MUTANT: the dry run reports no entities.
DryRunDataNoEntities(data) ==
    [blueprints |-> Len(DictGet(data, "blueprints")), entities |-> 0]

\* Lines 65-68: the data of the dry run's result.
DryRunData(data) ==
    [blueprints |-> Len(DictGet(data, "blueprints")),
     entities |-> Len(DictGet(data, "entities"))]

\* Lines 46-76 and 88-93: validate, load, validate the data, and either
\* return (an exception, or a dry run) or open the client for the replay.
ImportExecute(argset) ==
    /\ ipc = "start"
    /\ \E args \in argset :
         LET file == fs[args.input_path]
             loaded == LoadData(args.input_path, file)
             failed(error) ==
                 /\ iret' = ModuleResult(FALSE, "Import failed", NoData, error)
                 /\ ipc' = "done"
                 /\ UNCHANGED <<idata, ipos, apiDown>>
         IN /\ iargs' = args
            /\ IF file = NoFile THEN failed("Input file does not exist")
               ELSE IF ~loaded.ok THEN failed(loaded.error)
               ELSE IF ~ValidateData(loaded.data)
               THEN failed("Missing required data: blueprints")
               ELSE IF args.dry_run
               THEN /\ iret' = ModuleResult(TRUE,
                              "Validation passed (dry run - no changes applied)",
                              DryRunData(loaded.data), "")
                    /\ ipc' = "done"
                    /\ idata' = loaded.data
                    /\ UNCHANGED <<ipos, apiDown>>
               ELSE /\ ipc' = "replay"
                    /\ idata' = loaded.data
                    /\ ipos' = NextPos(loaded.data, args, 1, 1)
                    /\ apiDown' \in BOOLEAN
                    /\ UNCHANGED iret
    /\ UNCHANGED <<fs, calls, tgt, result>>
    /\ ImportFrame

\* execute called with any of the arguments.
ImportStart == ImportExecute(ImportArgs)

\* Lines 163-187
ImportBlueprint ==
    /\ AtBlock("blueprints")
    /\ LET blueprint == Current
           identifier == Get(blueprint, "identifier")
       IN IF Falsy(identifier) \/ IsSystemId(identifier)
          THEN PassOver
          ELSE /\ CreateThenUpdate("blueprints", "Blueprint", None, identifier, blueprint)
               /\ Advance

\* Lines 191-213
ImportEntity ==
    /\ AtBlock("entities")
    /\ LET entity == Current
           blueprint_id == Get(entity, "blueprint")
           entity_id == Get(entity, "identifier")
       IN IF Falsy(blueprint_id) \/ Falsy(entity_id)
          THEN PassOver
          ELSE /\ CreateThenUpdate("entities", "Entity", blueprint_id, entity_id, entity)
               /\ Advance

\* Lines 217-242
ImportScorecard ==
    /\ AtBlock("scorecards")
    /\ LET scorecard == Current
           blueprint_id == Get(scorecard, "blueprintIdentifier")
           scorecard_id == Get(scorecard, "identifier")
       IN IF Falsy(blueprint_id) \/ Falsy(scorecard_id)
          THEN PassOver
          ELSE /\ CreateThenUpdate("scorecards", "Scorecard", blueprint_id,
                                   scorecard_id, Without(scorecard, SystemFields))
               /\ Advance

\* Lines 246-271
ImportAction ==
    /\ AtBlock("actions")
    /\ LET action == Current
           blueprint_id == Get(action, "blueprintIdentifier")
           action_id == Get(action, "identifier")
       IN IF Falsy(blueprint_id) \/ Falsy(action_id)
          THEN PassOver
          ELSE /\ CreateThenUpdate("actions", "Action", blueprint_id,
                                   action_id, Without(action, SystemFields))
               /\ Advance

\* Lines 275-294
ImportTeam ==
    /\ AtBlock("teams")
    /\ LET team == Current
           team_name == Get(team, "name")
       IN IF Falsy(team_name)
          THEN PassOver
          ELSE /\ CreateThenUpdate("teams", "Team", None, team_name, team)
               /\ Advance

\* Lines 298-322
ImportAutomation ==
    /\ AtBlock("automations")
    /\ LET automation == Current
           automation_id == Get(automation, "identifier")
       IN IF Falsy(automation_id)
          THEN PassOver
          ELSE /\ CreateThenUpdate("automations", "Automation", None, automation_id,
                                   Without(automation, SystemFields))
               /\ Advance

\* Lines 326-358
ImportPage ==
    /\ AtBlock("pages")
    /\ LET page == Current
           page_id == Get(page, "identifier")
           page_type == Get(page, "type")
       IN IF Falsy(page_id) \/ page_type \in SystemPageTypes
          THEN PassOver
          ELSE /\ CreateThenUpdate("pages", "Page", None, page_id,
                                   Without(page, SystemFields \cup PageOnlyFields))
               /\ Advance

\* Lines 362-371: integrations are updated, never created.
ImportIntegration ==
    /\ AtBlock("integrations")
    /\ LET integration == Current
           integration_id == Get(integration, "identifier")
           key == <<"integrations", None, integration_id>>
       IN IF Falsy(integration_id)
          THEN PassOver
          ELSE /\ \E u \in UpdateOutcomes(key, tgt) :
                    /\ calls' = Append(calls, Call("update", "integrations", None,
                                                   integration_id, integration, u))
                    /\ IF u = "ok"
                       THEN /\ tgt' = tgt \cup {key}
                            /\ result' = Bump(result, "integrations_updated")
                       ELSE /\ tgt' = tgt
                            /\ result' =
                                 AddError(result, "Integration", integration_id,
                                          ErrorMsg(u, UpdateUrl("integrations", None,
                                                                integration_id)))
               /\ Advance

\* Lines 78-86: the replay is over, the client is closed, success is returned.
ImportReturn ==
    /\ ipc = "replay"
    /\ ipos.k > Len(KindOrder)
    /\ iret' = ModuleResult(TRUE, "Successfully imported data", result, "")
    /\ ipc' = "done"
    /\ UNCHANGED <<iargs, idata, ipos, result, fs, calls, tgt, apiDown>>
    /\ ImportFrame

(***************************************************************************)
(* ExportModule.execute.                                                   *)
(***************************************************************************)
\* The most records the source organization of an export holds.
MaxSourceRecords == 1

\* The source organizations exported from.
SourceOrgs == {SnapshotOf(s) : s \in RecordListsUpTo(MaxSourceRecords)}

\* The source API answers every read, or cannot be reached.
SourceDown == [down |-> TRUE, bad |-> {}, status |-> "500"]

Formats == {"json", "tar", "yaml"}

NoExportArgs ==
    [output_path |-> <<>>, format |-> "", blueprints |-> {},
     skip_entities |-> FALSE, include_resources |-> [given |-> FALSE, kinds |-> {}]]

NoExportResult == ModuleResult(FALSE, "", NoData, <<>>)

\* What the export's step leaves alone.
ExportFrame ==
    UNCHANGED <<resolveVars, importVars, migrateVars, clientVars, configVars, org, tgt, apiDown>>

\* Lines 56-95: what execute does with what _collect_data returned or raised.
ExportOutcome(args, f, collected) ==
    LET data == collected.st.data
        failed(error) == eret' = ModuleResult(FALSE, "Export failed", NoData, error)
    IN /\ eargs' = args
       /\ epc' = "done"
       /\ IF ~ValidFormat(args.format)
          THEN /\ failed(<<"format must be 'json' or 'tar'">>)
               /\ UNCHANGED <<fs, calls, faults, edata, ewarn>>
          ELSE /\ faults' = f
               /\ calls' = calls \o collected.st.calls
               /\ ewarn' = collected.st.warnings
               /\ IF collected.raised
                  THEN /\ failed(collected.error)
                       /\ UNCHANGED <<fs, edata>>
                  ELSE /\ fs' = [fs EXCEPT ![args.output_path] =
                                   IF args.format = "tar" THEN WriteTar(data)
                                   ELSE WriteJson(data)]
                       /\ edata' = data
                       /\ eret' = ModuleResult(TRUE, "Successfully exported data",
                            [output_path |-> args.output_path,
                             blueprints_count |-> Len(DictGet(data, "blueprints")),
                             entities_count |-> Len(DictGet(data, "entities")),
                             automations_count |-> Len(DictGet(data, "automations")),
                             pages_count |-> Len(DictGet(data, "pages")),
                             integrations_count |-> Len(DictGet(data, "integrations"))],
                            <<>>)

\* Lines 51-95: validate, collect, write, return; any exception is returned
\* as a failure.
ExportExecute(argset, faultset) ==
    /\ epc = "start"
    /\ \E args \in argset, f \in faultset :
         ExportOutcome(args, f, CollectData(org, f, args))
    /\ ExportFrame

\* ---- an export and an import on one file system
ArchiveExportArgs ==
    [output_path : Paths, format : Formats, blueprints : {{}},
     skip_entities : BOOLEAN, include_resources : {[given |-> FALSE, kinds |-> {}]}]

ArchiveImportArgs ==
    [input_path : Paths, dry_run : BOOLEAN, conflict_handler : {"skip"},
     skip_entities : {FALSE},
     include_resources : {[given |-> FALSE, kinds |-> {}]}]

\* Hand-made files that are structurally wrong.
WrongFiles ==
    {[path |-> <<".json">>, file |-> WriteJson(WithoutBlueprints(EmptySnapshot))],
     [path |-> <<".tar", ".gz">>, file |-> WriteTar(WithoutBlueprints(EmptySnapshot))],
     [path |-> <<".txt">>, file |-> WriteJson(EmptySnapshot)]}

ArchiveExport == ExportExecute(ArchiveExportArgs, {NoFaults, SourceDown})

ArchiveImport == ImportExecute(ArchiveImportArgs)

\* ---- an export alone, over the include filters
\* The most blueprints, and the most entities, the exported organization holds.
MaxExportBlueprints == 2

MaxExportEntities == 3

ExportEntityRecords ==
    {[identifier |-> <<"e1">>, blueprint |-> <<"svc">>],
     [identifier |-> <<"e2">>, blueprint |-> <<"svc">>]}

\* One record of each of the six other kinds, the per-blueprint ones of svc.
OtherRecords(kind) ==
    CASE kind = "scorecards" ->
           <<[identifier |-> <<"sc1">>, blueprintIdentifier |-> <<"svc">>]>>
      [] kind = "actions" ->
           <<[identifier |-> <<"act1">>, blueprintIdentifier |-> <<"svc">>]>>
      [] kind = "teams" -> <<[name |-> <<"team1">>]>>
      [] kind = "automations" -> <<[identifier |-> <<"auto1">>]>>
      [] kind = "pages" -> <<[identifier |-> <<"page1">>, type |-> "dashboard"]>>
      [] kind = "integrations" -> <<[identifier |-> <<"int1">>]>>

\* The organization that holds the blueprints, the entities and, when
\* `others`, one record of each other kind.
OrgOf(blueprints, entities, others) ==
    [k \in 1..Len(EightKinds) |->
        [key |-> EightKinds[k],
         value |-> CASE EightKinds[k] = "blueprints" -> blueprints
                     [] EightKinds[k] = "entities" -> entities
                     [] OTHER -> IF others THEN OtherRecords(EightKinds[k]) ELSE <<>>]]

ExportOrgs ==
    {OrgOf(b, e, o) :
        b \in SeqsUpTo(RecordsOf("blueprints"), MaxExportBlueprints),
        e \in SeqsUpTo(ExportEntityRecords, MaxExportEntities),
        o \in BOOLEAN}

\* include_resources of an export: None, the lists of the import, and the
\* lists of one kind.
ExportIncludes ==
    IncludeChoices \cup
    {[given |-> TRUE, kinds |-> {k}] : k \in {"entities", "scorecards", "teams"}}

ExportArgs ==
    [output_path : {<<".tar", ".gz">>}, format : {"tar"}, blueprints : {{}, {<<"svc">>}},
     skip_entities : BOOLEAN, include_resources : ExportIncludes]

ExportRun == ExportExecute(ExportArgs, {NoFaults, SourceDown})

\* ---- the import run again on the same archive and target
\* The most records of the archive that is replayed twice.
MaxReplayRecords == 2

ReplayFiles ==
    {[path |-> <<".json">>, file |-> WriteJson(SnapshotOf(s))] :
        s \in RecordListsUpTo(MaxReplayRecords)}

\* The replays run on the whole archive.
ReplayArgs ==
    [input_path : {<<".json">>}, dry_run : {FALSE}, conflict_handler : {"skip"},
     skip_entities : {FALSE},
     include_resources : {[given |-> FALSE, kinds |-> {}]}]

\* execute, the first time with any of the arguments, then with the same.
ReplayExecute == ImportExecute(IF runs = <<>> THEN ReplayArgs ELSE {iargs})

\* The import is run again with the same arguments, after it returned
\* success or after its process was interrupted in the replay; what the
\* replay did to the target stays.
ImportRestart ==
    /\ runs = <<>>
    /\ ipc \in {"replay", "done"}
    /\ ~iargs.dry_run
    /\ ipc = "done" => iret.success
    /\ runs' = <<[result |-> result, complete |-> ipc = "done", left |-> tgt]>>
    /\ ipc' = "start"
    /\ idata' = <<>>
    /\ ipos' = [k |-> 1, i |-> 1]
    /\ result' = EmptyResult
    /\ iret' = NoResult
    /\ UNCHANGED <<iargs, fs, calls, tgt, apiDown>>
    /\ UNCHANGED <<resolveVars, srcVars, exportVars, migrateVars, clientVars, configVars>>

(***************************************************************************)
(* PortAPIClient: the token cache (api_client.py 63-120).                  *)
(***************************************************************************)
\* Line 66: the buffer, in seconds, before the expiry at which the cached
\* token stops being used.
Margin == 300

\* Mutant of TokenValid: the cached token is used up to its expiry.
TokenValidNoMargin(tk, expiry, t) == tk # <<>> /\ t < expiry

\* Line 66: `self._token and time.time() < self._token_expiry - 300`.  None
\* and the empty string are both falsy.
TokenValid(tk, expiry, t) == tk # <<>> /\ t < expiry - Margin

\* The answers of the auth endpoint: an error status, or a TokenResponse.
\* Token "t1" comes with a lifetime of at most the margin or of twice the
\* margin; the answer can also carry an empty accessToken.
TokenResponses ==
    {[ok |-> FALSE, accessToken |-> None, expiresIn |-> 0],
     [ok |-> TRUE, accessToken |-> <<>>, expiresIn |-> 600],
     [ok |-> TRUE, accessToken |-> <<"t1">>, expiresIn |-> 300],
     [ok |-> TRUE, accessToken |-> <<"t1">>, expiresIn |-> 600],
     [ok |-> TRUE, accessToken |-> <<"t2">>, expiresIn |-> 600]}

\* The seconds a token request can take, and the seconds that can pass
\* between two calls.
Latencies == {0, 100}

Pauses == {100, 300}

\* The clock stops at MaxClock and the history at MaxCalls calls.
MaxClock == 800

MaxCalls == 2

\* Lines 63-83: _get_token at time t when the auth endpoint, if asked, answers
\* resp after `took` seconds.  `posted` tells whether the token request was
\* sent; `at` is the time when the call returns or raises.
GetToken(tk, expiry, t, resp, took) ==
    IF TokenValid(tk, expiry, t)
    THEN [raised |-> FALSE, ret |-> tk, posted |-> FALSE,
          token |-> tk, expiry |-> expiry, at |-> t]
    ELSE IF ~resp.ok
    THEN [raised |-> TRUE, ret |-> None, posted |-> TRUE,
          token |-> tk, expiry |-> expiry, at |-> t + took]
    ELSE [raised |-> FALSE, ret |-> resp.accessToken, posted |-> TRUE,
          token |-> resp.accessToken, expiry |-> (t + took) + resp.expiresIn,
          at |-> t + took]

\* A call of `op` ("get_token": _get_token itself; "request": _request, lines
\* 104-120, which sends the request with the token _get_token returned unless
\* _get_token raised).  The history keeps what was cached when the call began.
ClientCall(op) ==
    /\ Len(tcalls) < MaxCalls
    /\ \E resp \in TokenResponses, took \in Latencies :
        LET g == GetToken(token, token_expiry, clock, resp, took) IN
        /\ g.at <= MaxClock
        /\ token' = g.token
        /\ token_expiry' = g.expiry
        /\ clock' = g.at
        /\ tcalls' = Append(tcalls,
              [op |-> op, began |-> clock, cached |-> token,
               cachedExpiry |-> token_expiry, posted |-> g.posted,
               raised |-> g.raised, ret |-> g.ret, expiry |-> g.expiry,
               at |-> g.at, sent |-> op = "request" /\ ~g.raised])
    /\ UNCHANGED <<resolveVars, envVars, importVars, srcVars, exportVars, migrateVars,
                   configVars>>

ClientGetToken == ClientCall("get_token")

ClientRequest == ClientCall("request")

\* Time passes between two calls.
ClientWait ==
    /\ \E d \in Pauses :
        /\ clock + d <= MaxClock
        /\ clock' = clock + d
    /\ UNCHANGED <<token, token_expiry, tcalls>>
    /\ UNCHANGED <<resolveVars, envVars, importVars, srcVars, exportVars, migrateVars,
                   configVars>>

(***************************************************************************)
(* MigrateModule.execute.                                                  *)
(***************************************************************************)
\* The most relations the blueprints of a migrated organization carry.
MaxSourceEdges == 1

\* The entities the source organization may hold.
SourceEntities ==
    {<<>>,
     <<[identifier |-> <<"e1">>, blueprint |-> IdA]>>,
     <<[identifier |-> <<"e1">>, blueprint |-> IdA], [blueprint |-> IdB]>>}

\* The source organizations migrated from.
\* The organization with, when `extras`, a scorecard and an action of the
\* first blueprint and a team.
WithExtras(o, extras) ==
    IF ~extras THEN o
    ELSE DictSet(DictSet(DictSet(o,
           "scorecards", <<[identifier |-> <<"sc1">>, blueprintIdentifier |-> IdA]>>),
           "actions", <<[identifier |-> <<"act1">>, blueprintIdentifier |-> IdA]>>),
           "teams", <<[name |-> <<"team1">>]>>)

MigrateOrgs ==
    {WithExtras(DictSet(DictSet(EmptySnapshot, "blueprints", u), "entities", e), x) :
        u \in UniversesUpTo(MaxSourceEdges), e \in SourceEntities, x \in BOOLEAN}

\* The per-blueprint reads of the migrator are unconditional.
CollectAll ==
    [skip_entities |-> FALSE, include_resources |-> [given |-> FALSE, kinds |-> {}]]

\* Lines 153-158: get_teams in a try whose handler is `pass`.
TeamsOrPass(st, srcOrg, f) ==
    LET status == ReadStatus(f, "get_teams", None)
        made == Append(st.calls, ReadCall("get_teams", "teams", None, status))
    IN IF status = "ok"
       THEN [st EXCEPT !.calls = made,
                       !.data = DictSet(@, "teams", ReadResult(srcOrg, "get_teams", None))]
       ELSE [st EXCEPT !.calls = made]

\* _export_from_source (lines 102-182), with the set iteration order of the
\* resolver given.  Lines 132-151 are the loop of the exporter's lines
\* 158-183 with every kind collected; lines 160-180 are its lines 193-217.
ExportFromSource(srcOrg, f, blueprint_filter, order) ==
    LET bpStatus == ReadStatus(f, "get_blueprints", None)
        bpCall == ReadCall("get_blueprints", "blueprints", None, bpStatus)
        all_blueprints == ReadResult(srcOrg, "get_blueprints", None)
        selected == FilterBlueprints(all_blueprints, blueprint_filter)
        blueprints == ResolveDependencies(all_blueprints, selected, order)
        st1 == CollectState(DictSet(EmptySnapshot, "blueprints", blueprints), <<bpCall>>, <<>>)
        st2 == CollectForBlueprints(st1, srcOrg, f, CollectAll, blueprints)
        st3 == TeamsOrPass(st2, srcOrg, f)
        st4 == CollectWhole(st3, srcOrg, f, CollectAll, "get_all_actions", "automations")
        st5 == CollectWhole(st4, srcOrg, f, CollectAll, "get_pages", "pages")
        st6 == CollectWhole(st5, srcOrg, f, CollectAll, "get_integrations", "integrations")
    IN IF bpStatus # "ok"
       THEN [raised |-> TRUE, error |-> ErrorMsg(bpStatus, ReadUrl("get_blueprints", None)),
             st |-> CollectState(EmptySnapshot, <<bpCall>>, <<>>)]
       ELSE [raised |-> FALSE, error |-> <<>>, st |-> st6]

\* The set iteration orders line 197 may take for the selection of a filter.
SelectionOrders(srcOrg, blueprint_filter) ==
    Perms(IdsOf(FilterBlueprints(DictGet(srcOrg, "blueprints"), blueprint_filter)))

MigrateFilters == {{}, {IdA}, {IdC}}

MigrateArgs == [blueprints : MigrateFilters, dry_run : BOOLEAN]

NoMigrateArgs == [blueprints |-> {}, dry_run |-> FALSE]

MigrateCounters ==
    {"blueprints_created", "blueprints_skipped", "entities_created", "entities_skipped",
     "automations_exported", "pages_exported", "integrations_exported"}

\* Lines 227-236
MigrateResult(data) ==
    [counts |-> [c \in MigrateCounters |->
                    CASE c = "automations_exported" -> Len(DictGet(data, "automations"))
                      [] c = "pages_exported" -> Len(DictGet(data, "pages"))
                      [] c = "integrations_exported" -> Len(DictGet(data, "integrations"))
                      [] OTHER -> 0],
     errors |-> <<>>]

\* The blueprints the target may hold when the migration lists them.
TargetHoldings == {{}, {IdA}, {IdC}, Range(ResolveIds)}

\* What get_entity can do on a target whose holdings are known: the entity is
\* there, or it is not (404).
\* A lookup can also fail whether the entity is there or not (a server error,
\* a timeout).
GetOutcomes(key) ==
    IF apiDown THEN {"transport"}
    ELSE IF key \in tgt THEN {"ok", "500"}
    ELSE {"404", "500"}

\* The entities the target may hold when the migration starts on it.
TargetEntities == {{}, {<<"entities", IdA, <<"e1">>>>}}

\* MUTANT: no blueprint is taken to exist on the target.
InExistingNever(identifier, existing) == FALSE

\* identifier in existing_blueprints
InExisting(identifier, existing) == identifier \in existing

\* What the migration's steps leave alone.
MigrateFrame ==
    UNCHANGED <<resolveVars, importVars, exportVars, clientVars, configVars, org, fs>>

\* The loop the replay is in after record `pos` of the loop `pc`.
MigrateNext(data, pc, pos) ==
    IF pc = "blueprints" /\ pos > Len(DictGet(data, "blueprints"))
    THEN [pc |-> "entities", pos |-> 1]
    ELSE [pc |-> pc, pos |-> pos]

\* Lines 74-84 and 95-100: what execute does with what _export_from_source
\* returned or raised.
MigrateOutcome(args, f, exported) ==
    LET source_data == exported.st.data
    IN /\ margs' = args
       /\ faults' = f
       /\ calls' = calls \o exported.st.calls
       /\ mwarn' = exported.st.warnings
       /\ IF exported.raised
          THEN /\ mret' = ModuleResult(FALSE, "Migration failed", NoData,
                                       exported.error)
               /\ mpc' = "done"
               /\ UNCHANGED mdata
          ELSE IF args.dry_run
          THEN /\ mret' = ModuleResult(TRUE, "Migration validation passed (dry run)",
                            [blueprints |-> Len(DictGet(source_data, "blueprints")),
                             entities |-> Len(DictGet(source_data, "entities"))],
                            <<>>)
               /\ mpc' = "done"
               /\ mdata' = source_data
          ELSE /\ mpc' = "target"
               /\ mdata' = source_data
               /\ UNCHANGED mret

\* Lines 53-84 and 95-100: the clients are made, the source is exported, and
\* a dry run returns.
MigrateExecuteWith(argset, faultset) ==
    /\ mpc = "start"
    /\ \E args \in argset, f \in faultset :
         \E order \in SelectionOrders(org, args.blueprints) :
            MigrateOutcome(args, f, ExportFromSource(org, f, args.blueprints, order))
    /\ UNCHANGED <<mexisting, mpos, mresult, tgt, apiDown>>
    /\ MigrateFrame

MigrateExecute == MigrateExecuteWith(MigrateArgs, {NoFaults, SourceDown})

\* Lines 227-239: the result is set up and the target's blueprints are listed;
\* when the listing raises, execute returns the failure.
MigrateListTarget ==
    /\ mpc = "target"
    /\ \E down \in BOOLEAN, existing \in TargetHoldings :
       \E held \in {h \in TargetEntities : \A k \in h : k[2] \in existing} :
         LET status == IF down THEN "transport" ELSE "ok"
             listed == [Call("get", "blueprints", None, None, NoData, status)
                            EXCEPT !.op = "get_blueprints"]
             next == MigrateNext(mdata, "blueprints", 1)
         IN /\ apiDown' = down
            /\ calls' = Append(calls, listed)
            /\ IF down
               THEN /\ mret' = ModuleResult(FALSE, "Migration failed", NoData,
                                            ErrorMsg(status, <<"blueprints">>))
                    /\ mpc' = "done"
                    /\ UNCHANGED <<mexisting, mpos, mresult, tgt>>
               ELSE /\ mexisting' = existing
                    /\ tgt' = {<<"blueprints", None, id>> : id \in existing} \cup held
                    /\ mresult' = MigrateResult(mdata)
                    /\ mpc' = next.pc
                    /\ mpos' = next.pos
                    /\ UNCHANGED mret
    /\ UNCHANGED <<margs, mwarn, mdata, faults>>
    /\ MigrateFrame

\* The end of an iteration of either loop.
MigrateAdvance ==
    /\ mpc' = MigrateNext(mdata, mpc, mpos + 1).pc
    /\ mpos' = MigrateNext(mdata, mpc, mpos + 1).pos
    /\ UNCHANGED <<margs, mwarn, mdata, mexisting, mret, faults, apiDown>>
    /\ MigrateFrame

\* Lines 242-254: one blueprint of source_data.
MigrateBlueprint ==
    /\ mpc = "blueprints"
    /\ mpos <= Len(DictGet(mdata, "blueprints"))
    /\ LET blueprint == DictGet(mdata, "blueprints")[mpos]
           identifier == Get(blueprint, "identifier")
           key == <<"blueprints", None, identifier>>
       IN IF Falsy(identifier)
          THEN UNCHANGED <<calls, tgt, mresult>>
          ELSE IF InExisting(identifier, mexisting)
          THEN /\ mresult' = Bump(mresult, "blueprints_skipped")
               /\ UNCHANGED <<calls, tgt>>
          ELSE \E c \in CreateOutcomes(key) :
                 /\ calls' = Append(calls, Call("create", "blueprints", None, None,
                                                blueprint, c))
                 /\ IF c = "ok"
                    THEN /\ mresult' = Bump(mresult, "blueprints_created")
                         /\ tgt' = tgt \cup {key}
                    ELSE /\ mresult' = AddError(mresult, "Blueprint", identifier,
                                                ErrorMsg(c, CreateUrl("blueprints", None)))
                         /\ tgt' = IF c = "409" THEN tgt \cup {key} ELSE tgt
    /\ MigrateAdvance

\* Lines 257-273: one entity of source_data.
MigrateEntity ==
    /\ mpc = "entities"
    /\ mpos <= Len(DictGet(mdata, "entities"))
    /\ LET entity == DictGet(mdata, "entities")[mpos]
           blueprint_id == Get(entity, "blueprint")
           entity_id == Get(entity, "identifier")
           key == <<"entities", blueprint_id, entity_id>>
       IN IF Falsy(blueprint_id) \/ Falsy(entity_id)
          THEN UNCHANGED <<calls, tgt, mresult>>
          ELSE \E g \in GetOutcomes(key) :
                 LET got == Call("get", "entities", blueprint_id, entity_id, NoData, g)
                 IN IF g = "ok"
                    THEN /\ calls' = Append(calls, got)
                         /\ tgt' = tgt \cup {key}
                         /\ mresult' = Bump(mresult, "entities_skipped")
                    ELSE \E c \in CreateOutcomes(key) \ (IF key \in tgt THEN {} ELSE {"409"}) :
                           /\ calls' = calls \o
                                <<got, Call("create", "entities", blueprint_id, None,
                                            entity, c)>>
                           /\ IF c = "ok"
                              THEN /\ tgt' = tgt \cup {key}
                                   /\ mresult' = Bump(mresult, "entities_created")
                              ELSE /\ tgt' = tgt
                                   /\ mresult' =
                                        AddError(mresult, "Entity", entity_id,
                                                 ErrorMsg(c, CreateUrl("entities",
                                                                       blueprint_id)))
    /\ MigrateAdvance

\* Lines 275 and 89-93: the replay is over and success is returned.
MigrateReturn ==
    /\ mpc = "entities"
    /\ mpos > Len(DictGet(mdata, "entities"))
    /\ mret' = ModuleResult(TRUE, "Migration completed successfully", mresult, <<>>)
    /\ mpc' = "done"
    /\ UNCHANGED <<margs, mwarn, mdata, mexisting, mpos, mresult, calls, tgt, faults, apiDown>>
    /\ MigrateFrame

(***************************************************************************)
(* The specifications.  Each runs one part of the program; the variables   *)
(* of the other parts stay as they are initially.                          *)
(***************************************************************************)
(***************************************************************************)
(* Collection from a source whose per-blueprint reads can fail.            *)
(***************************************************************************)
MaxCollectBlueprints == 2

IdSvc == <<"svc">>
IdGha == <<"gh", "actions">>
IdDb == <<"db">>

\* The source's blueprints: svc has a relation to db.
CollectBlueprints ==
    {[identifier |-> IdSvc, relations |-> <<IdDb>>],
     [identifier |-> IdGha, relations |-> <<>>],
     [identifier |-> IdDb, relations |-> <<>>]}

\* The source's records of one blueprint, by kind.
RecordsFor(kind, id) ==
    CASE kind = "entities" -> <<[identifier |-> <<"e">> \o id, blueprint |-> id]>>
      [] kind = "scorecards" ->
           <<[identifier |-> <<"sc">> \o id, blueprintIdentifier |-> id]>>
      [] kind = "actions" ->
           <<[identifier |-> <<"act">> \o id, blueprintIdentifier |-> id]>>

RECURSIVE RecordsForAll(_, _)
RecordsForAll(kind, blueprints) ==
    IF blueprints = <<>> THEN <<>>
    ELSE RecordsFor(kind, blueprints[1].identifier) \o RecordsForAll(kind, Tail(blueprints))

\* The organizations: up to n different blueprints in any order, each with
\* an entity, a scorecard and an action, and one record of each
\* organization-wide kind.
CollectOrgsUpTo(n) ==
    {[k \in 1..Len(EightKinds) |->
        [key |-> EightKinds[k],
         value |-> CASE EightKinds[k] = "blueprints" -> b
                     [] EightKinds[k] \in {"entities", "scorecards", "actions"} ->
                          RecordsForAll(EightKinds[k], b)
                     [] OTHER -> OtherRecords(EightKinds[k])]] :
     b \in {s \in SeqsUpTo(CollectBlueprints, n) :
               \A i, j \in 1..Len(s) : s[i] = s[j] => i = j}}

CollectOrgs == CollectOrgsUpTo(MaxCollectBlueprints)

PerBlueprintReads == {"get_entities", "get_scorecards", "get_actions"}

\* The source answers every read, or none, or fails one read: one of the
\* per-blueprint reads of one blueprint, or get_teams.
CollectFaults ==
    {NoFaults, SourceDown}
    \cup {[down |-> FALSE, bad |-> {<<op, id>>}, status |-> s] :
             op \in PerBlueprintReads, id \in {IdSvc, IdGha, IdDb}, s \in {"500", "410"}}
    \cup {[down |-> FALSE, bad |-> {<<"get_teams", None>>}, status |-> "500"]}

\* The blueprints argument: None or a list (filter_given), the list empty,
\* naming one blueprint, or naming none of the source's.
CollectFilters == {{}, {IdSvc}, {IdGha}, {<<"none">>}}

CollectIncludes ==
    {[given |-> FALSE, kinds |-> {}],
     [given |-> TRUE, kinds |-> {"blueprints"}],
     [given |-> TRUE, kinds |-> {"entities"}],
     [given |-> TRUE, kinds |-> {"scorecards", "actions"}],
     [given |-> TRUE, kinds |-> {"teams", "pages"}]}

CollectArgs ==
    {a \in [output_path : {<<".json">>}, format : {"json"}, blueprints : CollectFilters,
            filter_given : BOOLEAN, skip_entities : BOOLEAN,
            include_resources : CollectIncludes] :
        a.blueprints # {} => a.filter_given}

CollectMigrateArgs ==
    {a \in [blueprints : CollectFilters, filter_given : BOOLEAN, dry_run : {TRUE}] :
        a.blueprints # {} => a.filter_given}

\* ExportModule.execute on such a source.
CollectExport == ExportExecute(CollectArgs, CollectFaults)

\* MigrateModule.execute, as a dry run, on such a source.
CollectMigrate == MigrateExecuteWith(CollectMigrateArgs, CollectFaults)

(***************************************************************************)
(* ConfigManager.load.                                                     *)
(*                                                                         *)
(* A str of the configuration is the one-element sequence of the string,   *)
(* so that the empty str is not None; a dict is the function of its keys.  *)
(***************************************************************************)
Text(s) == <<s>>

\* Python's truth of an Optional[str].
Truthy(x) == x # None /\ x # Text("")

DefaultApiUrl == Text("https://api.getport.io/v1")

DefaultBackend == [url |-> Text("http://localhost:8080"), timeout |-> 300]

\* config_dict as load starts with it (lines 82-86).
DefaultConfigDict ==
    [k \in {"default_org", "organizations", "backend"} |->
        CASE k = "default_org" -> None
          [] k = "organizations" -> <<>>
          [] k = "backend" -> DefaultBackend]

\* d.get(key, default): the default is for a missing key only.
PyGet(d, key, default) == IF key \in DOMAIN d THEN d[key] ELSE default

\* d[key] = value
PySet(d, key, value) ==
    [k \in DOMAIN d \cup {key} |-> IF k = key THEN value ELSE d[k]]

\* d.update(other)
PyUpdate(d, other) ==
    [k \in DOMAIN d \cup DOMAIN other |-> IF k \in DOMAIN other THEN other[k] ELSE d[k]]

\* os.getenv(name): None when the variable is not set.
GetEnv(env, name) == env[name]

\* os.getenv(name, default)
GetEnvOr(env, name, default) == IF env[name] = None THEN default ELSE env[name]

\* ConfigManager._load_from_env; returns what config_dict is afterwards.
LoadFromEnv(config_dict, env) ==
    LET backend_url == GetEnv(env, "PORT_CLI_BACKEND_URL")
        d1 == IF Truthy(backend_url)
              THEN PySet(config_dict, "backend",
                         [config_dict["backend"] EXCEPT !.url = backend_url])
              ELSE config_dict
        default_org == GetEnv(env, "PORT_DEFAULT_ORG")
        d2 == IF Truthy(default_org) THEN PySet(d1, "default_org", default_org) ELSE d1
        client_id == GetEnv(env, "PORT_CLIENT_ID")
        client_secret == GetEnv(env, "PORT_CLIENT_SECRET")
        api_url == GetEnvOr(env, "PORT_API_URL", DefaultApiUrl)
        org_name == PyGet(d2, "default_org", Text("default"))
        d3 == IF "organizations" \notin DOMAIN d2 THEN PySet(d2, "organizations", <<>>) ELSE d2
        d4 == PySet(d3, "organizations",
                    PySet(d3["organizations"], org_name,
                          [client_id |-> client_id, client_secret |-> client_secret,
                           api_url |-> api_url]))
        d5 == IF ~Truthy(PyGet(d4, "default_org", None))
              THEN PySet(d4, "default_org", org_name)
              ELSE d4
    IN  IF Truthy(client_id) /\ Truthy(client_secret) THEN d5 ELSE d2

\* Config(**config_dict): organizations is a Dict[str, OrganizationConfig],
\* so a key that is None fails the model's validation (lines 27-32).
ValidConfig(config_dict) == None \notin DOMAIN config_dict["organizations"]

\* ConfigManager.load (lines 81-97).
Load(file, env) ==
    LET d0 == IF file.exists THEN PyUpdate(DefaultConfigDict, file.content)
              ELSE DefaultConfigDict
        d1 == LoadFromEnv(d0, env)
    IN  IF ValidConfig(d1)
        THEN [raised |-> None, default_org |-> d1["default_org"],
              organizations |-> d1["organizations"], backend |-> d1["backend"]]
        ELSE [raised |-> Text("ValidationError")]

\* The files at config_path: none, or a YAML mapping with or without each of
\* the keys default_org and organizations.
FileOrg ==
    [client_id |-> Text("file-id"), client_secret |-> Text("file-secret"),
     api_url |-> DefaultApiUrl]

FileDefaultOrgs == {None, Text(""), Text("production"), Text("staging")}

FileOrganizations ==
    {[n \in S |-> FileOrg] :
        S \in {{}, {Text("production")}, {Text("default")},
               {Text("production"), Text("staging")}}}

FileContents ==
    UNION {{[k \in D |-> IF k = "default_org" THEN dorg ELSE orgs] :
               dorg \in FileDefaultOrgs, orgs \in FileOrganizations} :
           D \in SUBSET {"default_org", "organizations"}}

NoConfigFile == [exists |-> FALSE]

ConfigFiles == {NoConfigFile} \cup {[exists |-> TRUE, content |-> c] : c \in FileContents}

\* The environments: each variable unset (None) or set, the three the truth
\* of which the code tests also set to the empty string.
EnvNames ==
    {"PORT_CLI_BACKEND_URL", "PORT_DEFAULT_ORG", "PORT_CLIENT_ID",
     "PORT_CLIENT_SECRET", "PORT_API_URL"}

EnvValues(name) ==
    CASE name = "PORT_CLI_BACKEND_URL" -> {None, Text("http://backend:9000")}
      [] name = "PORT_DEFAULT_ORG" -> {None, Text(""), Text("staging")}
      [] name = "PORT_CLIENT_ID" -> {None, Text(""), Text("env-id")}
      [] name = "PORT_CLIENT_SECRET" -> {None, Text(""), Text("env-secret")}
      [] name = "PORT_API_URL" -> {None, Text("https://api.us.getport.io/v1")}

Environments == {e \in [EnvNames -> UNION {EnvValues(n) : n \in EnvNames}] :
                    \A n \in EnvNames : e[n] \in EnvValues(n)}

ConfigFrame ==
    UNCHANGED <<resolveVars, envVars, importVars, srcVars, exportVars, migrateVars,
                clientVars>>

\* One call of ConfigManager.load.
ConfigLoad ==
    /\ cpc = "start"
    /\ cpc' = "done"
    /\ cret' = Load(cfile, cenv)
    /\ UNCHANGED <<cfile, cenv>>
    /\ ConfigFrame

ConfigOff ==
    /\ cpc = "off"
    /\ cfile = NoConfigFile
    /\ cenv = [n \in EnvNames |-> None]
    /\ cret = None

ClientOff ==
    /\ token = None
    /\ token_expiry = 0
    /\ clock = 0
    /\ tcalls = <<>>

ResolveOff ==
    /\ rpc = "off"
    /\ rall = <<>>
    /\ rsel = <<>>
    /\ rst = ResolveStart(<<>>, <<>>)
    /\ rres1 = <<>>
    /\ rres2 = <<>>
    /\ riters = 0

EnvOff ==
    /\ fs = EmptyFs
    /\ calls = <<>>
    /\ tgt = {}
    /\ apiDown = FALSE

ImportOff ==
    /\ ipc = "off"
    /\ iargs = NoArgs
    /\ idata = <<>>
    /\ ipos = [k |-> 1, i |-> 1]
    /\ result = EmptyResult
    /\ iret = NoResult
    /\ runs = <<>>

SrcOff ==
    /\ org = EmptySnapshot
    /\ faults = NoFaults

ExportOff ==
    /\ epc = "off"
    /\ eargs = NoExportArgs
    /\ edata = <<>>
    /\ ewarn = <<>>
    /\ eret = NoExportResult

MigrateOff ==
    /\ mpc = "off"
    /\ margs = NoMigrateArgs
    /\ mdata = <<>>
    /\ mexisting = {}
    /\ mpos = 1
    /\ mresult = MigrateResult(<<>>)
    /\ mret = NoExportResult
    /\ mwarn = <<>>

\* The resolver called once on a larger universe, one or two blueprints
\* selected.
InitOrder ==
    /\ ClientOff
    /\ ConfigOff
    /\ rpc = "start"
    /\ rall \in OrderUniverses
    /\ \E ids \in (SUBSET {IdA, IdB}) \ {{}} : rsel = SelectSeqBy(rall, ids)
    /\ rst = ResolveStart(<<>>, <<>>)
    /\ rres1 = <<>>
    /\ rres2 = <<>>
    /\ riters = 0
    /\ EnvOff
    /\ ImportOff
    /\ SrcOff
    /\ ExportOff
    /\ MigrateOff

NextOrder ==
    \/ ResolveCall
    \/ ResolveLoopStep
    \/ ResolveReturn

SpecOrder == InitOrder /\ [][NextOrder]_vars

\* One run of the export, or one dry run of the migration, on a source with
\* failing reads.
InitCollect ==
    /\ ClientOff
    /\ ConfigOff
    /\ ResolveOff
    /\ EnvOff
    /\ ImportOff
    /\ org \in CollectOrgs
    /\ faults = NoFaults
    /\ \/ epc = "start" /\ mpc = "off"
       \/ epc = "off" /\ mpc = "start"
    /\ eargs = NoExportArgs
    /\ edata = <<>>
    /\ ewarn = <<>>
    /\ eret = NoExportResult
    /\ margs = NoMigrateArgs
    /\ mdata = <<>>
    /\ mexisting = {}
    /\ mpos = 1
    /\ mresult = MigrateResult(<<>>)
    /\ mret = NoExportResult
    /\ mwarn = <<>>

NextCollect ==
    \/ CollectExport
    \/ CollectMigrate

SpecCollect == InitCollect /\ [][NextCollect]_vars

\* A ConfigManager on a file and an environment, before load (lines 61-66).
InitConfig ==
    /\ ResolveOff
    /\ EnvOff
    /\ ImportOff
    /\ SrcOff
    /\ ExportOff
    /\ MigrateOff
    /\ ClientOff
    /\ cpc = "start"
    /\ cfile \in ConfigFiles
    /\ cenv \in Environments
    /\ cret = None

NextConfig == ConfigLoad

SpecConfig == InitConfig /\ [][NextConfig]_vars

InitResolve ==
    /\ ClientOff
    /\ ConfigOff
    /\ rpc = "start"
    /\ rall \in Universes
    /\ \E ids \in SUBSET IdsOf(rall) : rsel = SelectSeqBy(rall, ids)
    /\ rst = ResolveStart(<<>>, <<>>)
    /\ rres1 = <<>>
    /\ rres2 = <<>>
    /\ riters = 0
    /\ EnvOff
    /\ ImportOff
    /\ SrcOff
    /\ ExportOff
    /\ MigrateOff

NextResolve ==
    \/ ResolveCall
    \/ ResolveLoopStep
    \/ ResolveReturn
    \/ ResolveAgain
    \/ ResolveReturn2

SpecResolve == InitResolve /\ [][NextResolve]_vars

InitImport ==
    /\ ClientOff
    /\ ConfigOff
    /\ ResolveOff
    /\ \E f \in ImportFiles : fs = [EmptyFs EXCEPT ![f.path] = f.file]
    /\ calls = <<>>
    /\ tgt = {}
    /\ apiDown = FALSE
    /\ ipc = "start"
    /\ iargs = NoArgs
    /\ idata = <<>>
    /\ ipos = [k |-> 1, i |-> 1]
    /\ result = EmptyResult
    /\ iret = NoResult
    /\ runs = <<>>
    /\ SrcOff
    /\ ExportOff
    /\ MigrateOff

NextImport ==
    \/ ImportStart
    \/ ImportBlueprint
    \/ ImportEntity
    \/ ImportScorecard
    \/ ImportAction
    \/ ImportTeam
    \/ ImportAutomation
    \/ ImportPage
    \/ ImportIntegration
    \/ ImportReturn

SpecImport == InitImport /\ [][NextImport]_vars

InitArchive ==
    /\ ClientOff
    /\ ConfigOff
    /\ ResolveOff
    /\ MigrateOff
    /\ org \in SourceOrgs
    /\ faults = NoFaults
    /\ \/ fs = EmptyFs
       \/ \E f \in WrongFiles : fs = [EmptyFs EXCEPT ![f.path] = f.file]
    /\ calls = <<>>
    /\ tgt = {}
    /\ apiDown = FALSE
    /\ ipc = "start"
    /\ iargs = NoArgs
    /\ idata = <<>>
    /\ ipos = [k |-> 1, i |-> 1]
    /\ result = EmptyResult
    /\ iret = NoResult
    /\ runs = <<>>
    /\ epc = "start"
    /\ eargs = NoExportArgs
    /\ edata = <<>>
    /\ ewarn = <<>>
    /\ eret = NoExportResult

NextArchive ==
    \/ ArchiveExport
    \/ ArchiveImport

SpecArchive == InitArchive /\ [][NextArchive]_vars

InitMigrate ==
    /\ ClientOff
    /\ ConfigOff
    /\ ResolveOff
    /\ EnvOff
    /\ ImportOff
    /\ ExportOff
    /\ org \in MigrateOrgs
    /\ faults = NoFaults
    /\ mpc = "start"
    /\ margs = NoMigrateArgs
    /\ mdata = <<>>
    /\ mexisting = {}
    /\ mpos = 1
    /\ mresult = MigrateResult(<<>>)
    /\ mret = NoExportResult
    /\ mwarn = <<>>

NextMigrate ==
    \/ MigrateExecute
    \/ MigrateListTarget
    \/ MigrateBlueprint
    \/ MigrateEntity
    \/ MigrateReturn

SpecMigrate == InitMigrate /\ [][NextMigrate]_vars

InitExport ==
    /\ ClientOff
    /\ ConfigOff
    /\ ResolveOff
    /\ EnvOff
    /\ ImportOff
    /\ MigrateOff
    /\ org \in ExportOrgs
    /\ faults = NoFaults
    /\ epc = "start"
    /\ eargs = NoExportArgs
    /\ edata = <<>>
    /\ ewarn = <<>>
    /\ eret = NoExportResult

NextExport == ExportRun

SpecExport == InitExport /\ [][NextExport]_vars

InitReplay ==
    /\ ClientOff
    /\ ConfigOff
    /\ ResolveOff
    /\ SrcOff
    /\ ExportOff
    /\ MigrateOff
    /\ \E f \in ReplayFiles : fs = [EmptyFs EXCEPT ![f.path] = f.file]
    /\ calls = <<>>
    /\ tgt = {}
    /\ apiDown = FALSE
    /\ ipc = "start"
    /\ iargs = NoArgs
    /\ idata = <<>>
    /\ ipos = [k |-> 1, i |-> 1]
    /\ result = EmptyResult
    /\ iret = NoResult
    /\ runs = <<>>

NextReplay ==
    \/ ReplayExecute
    \/ ImportBlueprint
    \/ ImportEntity
    \/ ImportScorecard
    \/ ImportAction
    \/ ImportTeam
    \/ ImportAutomation
    \/ ImportPage
    \/ ImportIntegration
    \/ ImportReturn
    \/ ImportRestart

SpecReplay == InitReplay /\ [][NextReplay]_vars

\* One client instance, from its construction (lines 46-48).
InitClient ==
    /\ ResolveOff
    /\ EnvOff
    /\ ImportOff
    /\ SrcOff
    /\ ExportOff
    /\ MigrateOff
    /\ ClientOff
    /\ ConfigOff

NextClient ==
    \/ ClientGetToken
    \/ ClientRequest
    \/ ClientWait

SpecClient == InitClient /\ [][NextClient]_vars

(***************************************************************************)
(* The resolver's claims.                                                  *)
(***************************************************************************)
\* The targets, present in the universe, of the relations of the blueprints
\* whose identifier is in X.
DirectTargets(all, X) ==
    {t \in IdsOf(all) :
        \E i \in 1..Len(all) :
            /\ all[i].identifier \in X
            /\ \E j \in 1..Len(all[i].relations) : all[i].relations[j] = t}

RECURSIVE Closure(_, _)
\* The least set that holds X and is closed under DirectTargets.
Closure(all, X) ==
    LET Y == X \cup DirectTargets(all, X)
    IN IF Y = X THEN X ELSE Closure(all, Y)

\* C9: _resolve_dependencies terminates (its loop runs at most once per
\* blueprint of the universe) and returns exactly the selected identifiers
\* plus the identifiers reachable from them along relation targets present
\* in the universe, cycles and self-relations included.
C9_ResolveIsClosure ==
    /\ riters <= Cardinality(IdsOf(rall))
    /\ rpc = "ret" => IdsOf(rres1) = Closure(rall, IdsOf(rsel))

\* C9's case: the two-blueprint cycle, only one of the two selected, and the
\* call has returned both.
C9_Witness ==
    /\ rpc = "ret"
    /\ IdsOf(rall) = {IdA, IdB}
    /\ MapGet(rall, IdA).relations = <<IdB>>
    /\ MapGet(rall, IdB).relations = <<IdA>>
    /\ IdsOf(rsel) = {IdA}
    /\ IdsOf(rres1) = {IdA, IdB}

\* C10: resolving what the resolver returned returns it again: the same
\* identifier set, and no blueprint added.
C10_ResolveFixedPoint ==
    rpc = "ret2" => /\ IdsOf(rres2) = IdsOf(rres1)
                    /\ rres2 = rres1

\* C10's case: the first call added a dependency of a dependency, and the
\* second call has returned.
C10_Witness ==
    /\ rpc = "ret2"
    /\ Len(rres1) >= Len(rsel) + 2
    /\ Len(rsel) = 1

(***************************************************************************)
(* The import's claims.                                                    *)
(***************************************************************************)
\* The order the replay is specified to follow.
ReplayOrder ==
    <<"blueprints", "entities", "scorecards", "actions",
      "teams", "automations", "pages", "integrations">>

RankOf(kind) == CHOOSE k \in 1..Len(ReplayOrder) : ReplayOrder[k] = kind

\* The calls the step being taken issues.
NewCalls == SubSeq(calls', Len(calls) + 1, Len(calls'))

\* The identifier a record goes by: a team's name, else the identifier field.
RecordId(kind, body) ==
    IF kind = "teams" THEN Get(body, "name") ELSE Get(body, "identifier")

Underscored(id) == Len(id) > 0 /\ id[1] = "_"

\* C1: the write calls of a replay are issued kind by kind in the order
\* blueprints, entities, scorecards, actions, teams, automations, pages,
\* integrations: no call for a kind follows a call for a later kind, so every
\* blueprint call precedes every entity, scorecard and action call.
C1_CallsInKindOrder ==
    \A i, j \in 1..Len(calls) :
        i < j => RankOf(calls[i].kind) <= RankOf(calls[j].kind)

\* C1's case: a replay that has called for a blueprint and then for an entity.
C1_Witness ==
    /\ Len(calls) >= 2
    /\ calls[1].kind = "blueprints"
    /\ calls[Len(calls)].kind = "entities"

C3_OtherFailureIsOneError ==
    [][/\ (/\ NewCalls # <<>>
           /\ NewCalls[1].op = "create"
           /\ NewCalls[1].status \notin {"ok", "409"})
          => /\ Len(NewCalls) = 1
             /\ Len(result'.errors) = Len(result.errors) + 1
             /\ Last(result'.errors).id = RecordId(NewCalls[1].kind, NewCalls[1].body)
       /\ (/\ Len(NewCalls) = 2
           /\ NewCalls[1].status = "409"
           /\ NewCalls[2].status # "ok")
          => Len(result'.errors) = Len(result.errors) + 1
       /\ (ipc = "replay" /\ ipc' = "done") => iret'.success]_vars

\* C4: a blueprint whose identifier starts with an underscore is never the
\* body of a blueprint call and never the subject of an error string.
C4_SystemBlueprintsUntouched ==
    /\ \A i \in 1..Len(calls) :
          calls[i].kind = "blueprints" => ~Underscored(Get(calls[i].body, "identifier"))
    /\ \A i \in 1..Len(result.errors) :
          result.errors[i].label = "Blueprint" => ~Underscored(result.errors[i].id)

\* C4's case: an archive with a system blueprint, replayed to the end with
\* blueprints named in the include filter.
C4_Witness ==
    /\ ipc = "done"
    /\ iret.success
    /\ ~iargs.dry_run
    /\ iargs.include_resources.given
    /\ "blueprints" \in iargs.include_resources.kinds
    /\ \E i \in 1..Len(DictGet(idata, "blueprints")) :
          Underscored(Get(DictGet(idata, "blueprints")[i], "identifier"))

\* C6: an import that could not reach the API for any of its calls returns
\* failure.
C6_UnreachableApiIsFatal ==
    (/\ ipc = "done"
     /\ ~iargs.dry_run
     /\ apiDown
     /\ Len(calls) >= 1)
    => ~iret.success

(***************************************************************************)
(* The migration's claims.                                                 *)
(***************************************************************************)
\* C5: a migration never calls create_blueprint on the target client with a
\* blueprint whose identifier begins with an underscore, whether the
\* blueprint was selected or pulled in by the resolver.
C5_MigrateCreatesNoSystemBlueprint ==
    \A i \in 1..Len(calls) :
        (/\ calls[i].client = "target"
         /\ calls[i].op = "create"
         /\ calls[i].kind = "blueprints")
        => ~Underscored(Get(calls[i].body, "identifier"))

(***************************************************************************)
(* The claims on the archive.                                              *)
(***************************************************************************)
\* The step being taken is the import's execute, up to its return or to the
\* opening of the client.
ImportBegins == ipc = "start" /\ ipc' # "start"

\* The step being taken is the export's execute.
ExportRuns == epc = "start" /\ epc' # "start"

\* The archive holds no blueprints key: no such key in the JSON document, no
\* member blueprints.json in the tar.
LacksBlueprints(file) ==
    \/ /\ file.container = "json"
       /\ \A i \in 1..Len(file.doc.json) : file.doc.json[i].key # "blueprints"
    \/ /\ file.container = "targz"
       /\ \A i \in 1..Len(file.members) : file.members[i].name # <<"blueprints", ".json">>

\* The path's extension is neither .json nor a tar/.gz form.
UnsupportedExtension(path) ==
    /\ Suffix(path) # ".json"
    /\ Suffix(path) # ".gz"
    /\ ".tar" \notin Range(path)

\* C7: an import of an existing archive that lacks the blueprints key or
\* whose extension is neither .json nor a tar/.gz form returns failure from
\* execute itself, and an export whose format is neither json nor tar returns
\* failure; neither has issued an API call nor written a file.
C7_StructuralFailureBeforeAnyCall ==
    [][/\ (/\ ImportBegins
           /\ fs[iargs'.input_path] # NoFile
           /\ \/ UnsupportedExtension(iargs'.input_path)
              \/ LacksBlueprints(fs[iargs'.input_path]))
          => /\ ipc' = "done"
             /\ ~iret'.success
             /\ calls' = calls
             /\ fs' = fs
       /\ (ExportRuns /\ eargs'.format \notin {"json", "tar"})
          => /\ ~eret'.success
             /\ calls' = calls
             /\ fs' = fs]_vars

\* C7's case: an export with format yaml and an import of a JSON archive
\* without the blueprints key have both returned, and no call was issued.
C7_Witness ==
    /\ epc = "done"
    /\ eargs.format = "yaml"
    /\ ipc = "done"
    /\ iargs.input_path = <<".json">>
    /\ fs[<<".json">>] # NoFile
    /\ LacksBlueprints(fs[<<".json">>])
    /\ calls = <<>>

LoadedAs(path) ==
    IF Suffix(path) = ".json" THEN "json"
    ELSE IF Suffix(path) = ".gz" \/ ".tar" \in Range(path) THEN "tar"
    ELSE "none"

RECURSIVE EntitiesOfAll(_, _)
\* The entities of the blueprints, blueprint by blueprint.
EntitiesOfAll(srcOrg, blueprints) ==
    IF blueprints = <<>> THEN <<>>
    ELSE (IF Falsy(Get(blueprints[1], "identifier")) THEN <<>>
          ELSE SelectByField(DictGet(srcOrg, "entities"), "blueprint",
                             Get(blueprints[1], "identifier")))
         \o EntitiesOfAll(srcOrg, Tail(blueprints))

\* C11: the snapshot of a successful export has exactly the eight kind keys,
\* every kind outside a given include filter is empty, and with the filter
\* {entities}, no blueprint filter and every read answered, the blueprints
\* were fetched, the snapshot's blueprints are empty and its entities are the
\* entities of every source blueprint.
C11_SnapshotShape ==
    (epc = "done" /\ eret.success) =>
        /\ [k \in 1..Len(edata) |-> edata[k].key] = EightKinds
        /\ \A kind \in Kinds :
              (eargs.include_resources.given /\ kind \notin eargs.include_resources.kinds)
              => DictGet(edata, kind) = <<>>
        /\ (/\ eargs.include_resources = [given |-> TRUE, kinds |-> {"entities"}]
            /\ eargs.blueprints = {}
            /\ ~eargs.skip_entities)
           => /\ DictGet(edata, "blueprints") = <<>>
              /\ DictGet(edata, "entities") =
                    EntitiesOfAll(org, DictGet(org, "blueprints"))
              /\ \E i \in 1..Len(calls) : calls[i].op = "get_blueprints"

\* C11's case, the scenario: two blueprints, one with three entities and one
\* with none, exported with the include filter {entities}.
C11_Witness ==
    /\ epc = "done"
    /\ eret.success
    /\ eargs.include_resources = [given |-> TRUE, kinds |-> {"entities"}]
    /\ eargs.blueprints = {}
    /\ Len(DictGet(org, "blueprints")) = 2
    /\ Len(DictGet(org, "scorecards")) = 1
    /\ Len(DictGet(edata, "entities")) = 3
    /\ Len(DictGet(edata, "blueprints")) = 0

(***************************************************************************)
(* The migration's claims, continued.                                      *)
(***************************************************************************)
ReadOps ==
    {"get_blueprints", "get_entities", "get_scorecards", "get_actions",
     "get_teams", "get_all_actions", "get_pages", "get_integrations"}

\* The blueprints of the source a migration with the filter selects.
SelectedIds(srcOrg, blueprint_filter) ==
    IdsOf(FilterBlueprints(DictGet(srcOrg, "blueprints"), blueprint_filter))

\* C12: a dry-run migration issues only reads, and only on the source
\* client; when the source answers it returns success with the number of
\* blueprints after dependency resolution and the number of entities
\* collected for them.
C12_DryRunMigrateOnlyCollects ==
    (mpc = "done" /\ margs.dry_run) =>
        /\ \A i \in 1..Len(calls) :
              calls[i].client = "source" /\ calls[i].op \in ReadOps
        /\ faults = NoFaults =>
              /\ mret.success
              /\ mret.data.blueprints =
                    Cardinality(Closure(DictGet(org, "blueprints"),
                                        SelectedIds(org, margs.blueprints)))
              /\ mret.data.entities = Len(EntitiesOfAll(org, DictGet(mdata, "blueprints")))

\* C12's case: a dry run whose selection of one blueprint pulled in a second
\* one, with an entity collected.
C12_Witness ==
    /\ mpc = "done"
    /\ margs.dry_run
    /\ margs.blueprints = {IdA}
    /\ mret.success
    /\ mret.data.blueprints = 2
    /\ mret.data.entities >= 1

\* The error strings of the label.
ErrorsOf(res, label) == {i \in 1..Len(res.errors) : res.errors[i].label = label}

\* How many of the first n records carry the field.
WithField(records, field, n) ==
    Cardinality({i \in 1..n : ~Falsy(Get(records[i], field))})

\* The blueprints of source_data the replay has gone through.
BlueprintsDone ==
    IF mpc = "blueprints" THEN mpos - 1 ELSE Len(DictGet(mdata, "blueprints"))

\* C13: a migration issues no create or update for a blueprint whose
\* identifier the target listed, it counts that blueprint in
\* blueprints_skipped and leaves the target as it is; and every blueprint
\* with an identifier gone through is counted exactly once among
\* blueprints_created, blueprints_skipped and the blueprint errors.
C13_ExistingBlueprintSkipped ==
    /\ [](\A i \in 1..Len(calls) :
            (calls[i].client = "target" /\ calls[i].kind = "blueprints"
               /\ calls[i].op \in {"create", "update"})
            => Get(calls[i].body, "identifier") \notin mexisting)
    /\ []((mpc \in {"blueprints", "entities"} \/ (mpc = "done" /\ mret.success /\ ~margs.dry_run))
          => mresult.counts["blueprints_created"] + mresult.counts["blueprints_skipped"]
               + Cardinality(ErrorsOf(mresult, "Blueprint"))
             = WithField(DictGet(mdata, "blueprints"), "identifier", BlueprintsDone))
    /\ [][(/\ mpc = "blueprints"
           /\ <<mpc, mpos>>' # <<mpc, mpos>>
           /\ Get(DictGet(mdata, "blueprints")[mpos], "identifier") \in mexisting)
          => /\ calls' = calls
             /\ tgt' = tgt
             /\ mresult' = [mresult EXCEPT !.counts["blueprints_skipped"] = @ + 1]]_vars

\* C13's case: a migration that skipped a blueprint the target held and
\* created one it did not hold.
C13_Witness ==
    /\ mpc = "done"
    /\ mret.success
    /\ ~margs.dry_run
    /\ mresult.counts["blueprints_skipped"] >= 1
    /\ mresult.counts["blueprints_created"] >= 1

\* C14: create_entity is called on the target only for an entity the target
\* does not hold, whatever the lookup answered.
C14_OnlyAbsentEntitiesCreated ==
    [][\A i \in 1..Len(NewCalls) :
          (/\ NewCalls[i].client = "target"
           /\ NewCalls[i].op = "create"
           /\ NewCalls[i].kind = "entities")
          => <<"entities", NewCalls[i].parent, Get(NewCalls[i].body, "identifier")>>
                \notin tgt]_vars

(***************************************************************************)
(* The claims on a repeated import.                                        *)
(***************************************************************************)
\* The record is one the replay issues a call for.
Replayable(kind, rec) ==
    CASE kind = "blueprints" ->
           ~Falsy(Get(rec, "identifier")) /\ ~Underscored(Get(rec, "identifier"))
      [] kind = "entities" ->
           ~Falsy(Get(rec, "blueprint")) /\ ~Falsy(Get(rec, "identifier"))
      [] kind \in {"scorecards", "actions"} ->
           ~Falsy(Get(rec, "blueprintIdentifier")) /\ ~Falsy(Get(rec, "identifier"))
      [] kind = "teams" -> ~Falsy(Get(rec, "name"))
      [] kind = "pages" ->
           ~Falsy(Get(rec, "identifier")) /\ Get(rec, "type") \notin SystemPageTypes
      [] OTHER -> ~Falsy(Get(rec, "identifier"))

\* The first run went through the whole snapshot and recorded no error, and
\* the second run has returned, with no error either.
SecondPassDone ==
    /\ runs # <<>>
    /\ runs[1].complete
    /\ runs[1].result.errors = <<>>
    /\ ipc = "done"
    /\ iret.success
    /\ result.errors = <<>>

NoneCreated == \A kind \in Kinds \ {"integrations"} : result.counts[kind \o "_created"] = 0

C16_SkipLeavesExistingBlueprint ==
    [][(/\ ipc = "replay"
        /\ iargs.conflict_handler = "skip"
        /\ NewCalls # <<>>
        /\ NewCalls[1].kind = "blueprints"
        /\ NewCalls[1].op = "create"
        /\ NewCalls[1].status = "409")
       => /\ Len(NewCalls) = 1
          /\ result'.counts["blueprints_created"] = result.counts["blueprints_created"]
          /\ result'.counts["blueprints_updated"] = result.counts["blueprints_updated"]]_vars

(***************************************************************************)
(* The migration's claims, continued.                                      *)
(***************************************************************************)
\* The key a record of the kind goes by on the target.
KeyOf(kind, rec) ==
    CASE kind = "entities" -> <<kind, Get(rec, "blueprint"), Get(rec, "identifier")>>
      [] kind \in {"scorecards", "actions"} ->
           <<kind, Get(rec, "blueprintIdentifier"), Get(rec, "identifier")>>
      [] kind = "teams" -> <<kind, None, Get(rec, "name")>>
      [] OTHER -> <<kind, None, Get(rec, "identifier")>>

\* C17: after a migration that completed without errors, every scorecard,
\* action and team collected from the source is on the target.
C17_MigrateCarriesScorecardsActionsTeams ==
    (mpc = "done" /\ mret.success /\ ~margs.dry_run /\ mresult.errors = <<>>) =>
        \A kind \in {"scorecards", "actions", "teams"} :
            \A i \in 1..Len(DictGet(mdata, kind)) :
                KeyOf(kind, DictGet(mdata, kind)[i]) \in tgt

(***************************************************************************)
(* The client's claims.                                                    *)
(***************************************************************************)
\* A token request was sent exactly when nothing (truthy) was cached or the
\* call began at or past the cached expiry minus the margin; a call that sent
\* none returned the cached token.
RequestsExactlyWhenStale ==
    \A i \in 1..Len(tcalls) :
        LET c == tcalls[i] IN
        /\ c.posted <=> (c.cached = None \/ c.began >= c.cachedExpiry - Margin)
        /\ ~c.posted => (c.ret = c.cached /\ ~c.raised)

\* After a call fetched a token, no later call that begins inside that
\* token's window sends a token request.
OneRequestPerWindow ==
    \A i \in 1..Len(tcalls) : \A j \in (i + 1)..Len(tcalls) :
        (/\ tcalls[i].posted /\ ~tcalls[i].raised /\ tcalls[i].ret # None
         /\ tcalls[j].began < tcalls[i].expiry - Margin)
        => \A k \in (i + 1)..j : ~tcalls[k].posted

\* C18 as stated: the two properties above, and every request sent carries a
\* token that is more than the margin away from its expiry when the request is
\* prepared.
C18_NoRequestNearExpiry ==
    /\ RequestsExactlyWhenStale
    /\ OneRequestPerWindow
    /\ \A i \in 1..Len(tcalls) :
        tcalls[i].sent => tcalls[i].at < tcalls[i].expiry - Margin

\* C18: _get_token sends a token request if and only if no token is cached or
\* the time is at or past the cached expiry minus 300 seconds, otherwise it
\* returns the cached token without a request; calls inside one token's
\* window send one token request; and no request is authorised with a token
\* taken from the cache that is within 300 seconds of its expiry.  (A token
\* fetched for the request is used whatever lifetime the answer gave it.)
C18_CachedTokenNeverNearExpiry ==
    /\ RequestsExactlyWhenStale
    /\ OneRequestPerWindow
    /\ \A i \in 1..Len(tcalls) :
        (tcalls[i].sent /\ ~tcalls[i].posted)
            => tcalls[i].at < tcalls[i].expiry - Margin

\* A fetch and, some time later, a request inside the window that reuses the
\* token.
C18_Witness ==
    /\ Len(tcalls) = 2
    /\ tcalls[1].posted /\ ~tcalls[1].raised
    /\ tcalls[2].op = "request" /\ ~tcalls[2].posted /\ tcalls[2].sent
    /\ tcalls[2].began > tcalls[1].at

(***************************************************************************)
(* Retrying a replay.                                                      *)
(***************************************************************************)
\* The keys of the records of the snapshot the replay issues a call for.
ReplayedKeys(data) ==
    UNION {{KeyOf(kind, DictGet(data, kind)[i]) :
               i \in {j \in 1..Len(DictGet(data, kind)) :
                         Replayable(kind, DictGet(data, kind)[j])}} :
           kind \in Kinds}

ReplayedCount(data) ==
    LET n(kind) == Cardinality({j \in 1..Len(DictGet(data, kind)) :
                                   Replayable(kind, DictGet(data, kind)[j])})
    IN n("blueprints") + n("entities") + n("scorecards") + n("actions")
         + n("teams") + n("automations") + n("pages") + n("integrations")

\* How often the target answered a create of the resource with success.
TimesCreated(key) ==
    Cardinality({i \in 1..Len(calls) :
        /\ calls[i].op = "create" /\ calls[i].status = "ok"
        /\ KeyOf(calls[i].kind, calls[i].body) = key})

SumCreated ==
    LET c(kind) == result.counts[kind \o "_created"]
    IN c("blueprints") + c("entities") + c("scorecards") + c("actions")
         + c("teams") + c("automations") + c("pages")

SumUpdated ==
    LET u(kind) == result.counts[kind \o "_updated"]
    IN u("blueprints") + u("entities") + u("scorecards") + u("actions")
         + u("teams") + u("automations") + u("pages") + u("integrations")

\* A replay has returned without an error.
CleanReplayDone == ipc = "done" /\ iret.success /\ result.errors = <<>>

\* C19: whatever point the first replay was stopped at, after a following
\* complete replay of the same snapshot that recorded no error the target
\* holds exactly the resources a single uninterrupted replay leaves there
\* (the records the replay issues calls for), none of them created twice:
\* the resources the first replay left are updated, only the others created.
C19_RetryAfterInterruptionIsSafe ==
    /\ (runs = <<>> /\ CleanReplayDone) => tgt = ReplayedKeys(idata)
    /\ (runs # <<>> /\ CleanReplayDone) =>
          /\ tgt = ReplayedKeys(idata)
          /\ \A key \in tgt : TimesCreated(key) <= 1
          /\ SumCreated <= Cardinality(tgt \ runs[1].left)
          /\ SumCreated + SumUpdated = ReplayedCount(idata)

\* C19's case: the first replay was stopped after it had left a resource on
\* the target; the retry updated that one and created another.
C19_Witness ==
    /\ runs # <<>>
    /\ ~runs[1].complete
    /\ runs[1].left # {}
    /\ CleanReplayDone
    /\ SumCreated > 0
    /\ SumUpdated > 0
    /\ \E key \in runs[1].left : TimesCreated(key) = 1

(***************************************************************************)
(* The dry run of the import.                                              *)
(***************************************************************************)
\* The records the archive holds under the key: the value of the key in the
\* JSON document, the content of the last member <key>.json of the tar.
ArchiveRecords(file, key) ==
    IF file.container = "json"
    THEN LET at == {i \in 1..Len(file.doc.json) : file.doc.json[i].key = key}
         IN IF at = {} THEN <<>>
            ELSE file.doc.json[CHOOSE i \in at : \A j \in at : j <= i].value
    ELSE LET at == {i \in 1..Len(file.members) : file.members[i].name = <<key, ".json">>}
         IN IF at = {} THEN <<>>
            ELSE file.members[CHOOSE i \in at : \A j \in at : j <= i].content.json

\* The file is an archive the path's extension selects the right loader for,
\* and it holds the blueprints key.
WellFormedArchive(path, file) ==
    /\ file # NoFile
    /\ ~LacksBlueprints(file)
    /\ \/ Suffix(path) = ".json" /\ file.container = "json"
       \/ /\ Suffix(path) # ".json"
          /\ ~UnsupportedExtension(path)
          /\ file.container = "targz"

\* C20: a dry-run import returns from execute itself, without opening the
\* client, issuing a call or changing the target or a file; on a well-formed
\* archive it returns success with the numbers of blueprints and entities in
\* the archive, and on an archive without the blueprints key or with an
\* unsupported extension it returns failure.
C20_DryRunImportChangesNothing ==
    [][(ImportBegins /\ iargs'.dry_run) =>
        LET path == iargs'.input_path
            file == fs[path]
        IN /\ ipc' = "done"
           /\ calls' = calls /\ tgt' = tgt /\ fs' = fs
           /\ WellFormedArchive(path, file) =>
                /\ iret'.success
                /\ iret'.data =
                     [blueprints |-> Len(ArchiveRecords(file, "blueprints")),
                      entities |-> Len(ArchiveRecords(file, "entities"))]
           /\ (file # NoFile /\ (UnsupportedExtension(path) \/ LacksBlueprints(file)))
                => ~iret'.success]_vars

\* C20's case: a dry run of an archive with blueprints and entities has
\* returned their numbers, and no call was issued.
C20_Witness ==
    /\ ipc = "done"
    /\ iargs.dry_run
    /\ iret.success
    /\ iret.data = [blueprints |-> 1, entities |-> 1]
    /\ calls = <<>>

(***************************************************************************)
(* The order of the resolver's result.                                     *)
(***************************************************************************)
RECURSIVE DistanceFrom(_, _, _, _)
\* The relation distance of the identifier from the set X, X being at
\* distance n; -1 when it cannot be reached.
DistanceFrom(all, X, id, n) ==
    IF id \in X THEN n
    ELSE LET Y == X \cup DirectTargets(all, X)
         IN IF Y = X THEN -1 ELSE DistanceFrom(all, Y, id, n + 1)

Distance(id) == DistanceFrom(rall, IdsOf(rsel), id, 0)

\* The result of the call that returned starts with the selection, and no
\* identifier is in it twice.
SelectionFirstNoDuplicate ==
    rpc = "ret" =>
        /\ Len(rres1) >= Len(rsel)
        /\ SubSeq(rres1, 1, Len(rsel)) = rsel
        /\ \A i, j \in 1..Len(rres1) :
              rres1[i].identifier = rres1[j].identifier => i = j

\* C21 as stated: the selection first, no identifier twice, and among the
\* dependencies none at distance d + 1 before one at distance d.
C21_DependenciesBreadthFirst ==
    /\ SelectionFirstNoDuplicate
    /\ rpc = "ret" =>
          \A i, j \in (Len(rsel) + 1)..Len(rres1) :
              i < j => Distance(rres1[i].identifier) # Distance(rres1[j].identifier) + 1

\* The identifiers a loop step enqueued, in the order of their enqueueing:
\* what to_check holds beyond the entries it had, less the popped one.
Enqueued == SubSeq(rst'.to_check, Len(rst.to_check), Len(rst'.to_check))

\* C21: the result starts with the selected blueprints in their given order
\* and holds no identifier twice; the dependencies follow in the order in
\* which they were enqueued, each after a blueprint with a relation to it.
\* (The loop takes the identifier enqueued last, so the order is not by
\* distance.)
C21_DependenciesInEnqueueOrder ==
    /\ []SelectionFirstNoDuplicate
    /\ [](rpc = "ret" =>
            \A j \in (Len(rsel) + 1)..Len(rres1) :
                \E i \in 1..(j - 1) :
                    \E r \in 1..Len(rres1[i].relations) :
                        rres1[i].relations[r] = rres1[j].identifier)
    /\ [][(rpc = "loop" /\ rst'.to_check # rst.to_check) =>
            /\ Len(rst'.result) = Len(rst.result) + Len(Enqueued)
            /\ SubSeq(rst'.result, 1, Len(rst.result)) = rst.result
            /\ \A k \in 1..Len(Enqueued) :
                  rst'.result[Len(rst.result) + k] = MapGet(rall, Enqueued[k])]_vars

\* C21's case: two selected blueprints and three dependencies, one of them a
\* dependency of a dependency.
C21_Witness ==
    /\ rpc = "ret"
    /\ Len(rsel) = 2
    /\ Len(rres1) = 5
    /\ \E j \in 3..5 : Distance(rres1[j].identifier) = 2

(***************************************************************************)
(* The collection's claims.                                                *)
(***************************************************************************)
\* The step being taken is the migration's execute up to the end of
\* _export_from_source.
MigrateCollects == mpc = "start" /\ mpc' # "start"

\* The per-blueprint kinds in the order of their reads, with the read and
\* the field that names the blueprint.
PerBlueprintKinds == <<"entities", "scorecards", "actions">>

ReadOf(kind) ==
    CASE kind = "entities" -> "get_entities"
      [] kind = "scorecards" -> "get_scorecards"
      [] kind = "actions" -> "get_actions"
      [] kind = "teams" -> "get_teams"
      [] kind = "automations" -> "get_all_actions"
      [] kind = "pages" -> "get_pages"
      [] kind = "integrations" -> "get_integrations"

BlueprintField(kind) == IF kind = "entities" THEN "blueprint" ELSE "blueprintIdentifier"

\* The step issued the read and the source answered it.
Answered(op, parent) ==
    \E i \in 1..Len(NewCalls) :
        /\ NewCalls[i].op = op /\ NewCalls[i].parent = parent
        /\ NewCalls[i].status = "ok"

\* The snapshot holds the source's records of the kind for the blueprint.
HoldsRecordsOf(data, kind, id) ==
    SelectByField(DictGet(data, kind), BlueprintField(kind), id)
        = SelectByField(DictGet(org, kind), BlueprintField(kind), id)

\* The source fails exactly one per-blueprint read.
OneReadFails(f) ==
    /\ ~f.down
    /\ \E op \in PerBlueprintReads, id \in {IdSvc, IdGha, IdDb} : f.bad = {<<op, id>>}

\* With one per-blueprint read failing, the collection that produced `data`
\* from the `retained` blueprints, collecting the kinds `wanted`, lost
\* nothing but the failing blueprint's records from the failing read on.
NothingElseLost(f, data, retained, wanted) ==
    LET bad == CHOOSE p \in f.bad : TRUE
        failing == CHOOSE k \in 1..3 : ReadOf(PerBlueprintKinds[k]) = bad[1]
    IN /\ \A i \in 1..Len(retained) : \A k \in 1..3 :
            LET id == retained[i].identifier
                kind == PerBlueprintKinds[k]
            IN (kind \in wanted /\ (id # bad[2] \/ k < failing))
               => /\ Answered(ReadOf(kind), id)
                  /\ HoldsRecordsOf(data, kind, id)
       /\ \A kind \in {"teams", "automations", "pages", "integrations"} :
            kind \in wanted
            => /\ Answered(ReadOf(kind), None)
               /\ DictGet(data, kind) = DictGet(org, kind)

\* The kinds an export with the arguments collects.
WantedKinds(args) ==
    {kind \in Kinds :
        /\ ShouldCollect(args.include_resources, kind)
        /\ kind = "entities" => ~args.skip_entities}

\* C22: when one per-blueprint read of one blueprint fails, the export and
\* the migration's collection still succeed; every other retained blueprint's
\* entities, scorecards and actions are fetched and in the snapshot, so are the
\* failing blueprint's records read before the failure, and the
\* organization-wide kinds are fetched.
C22_FailingBlueprintDoesNotAbort ==
    [][/\ (ExportRuns /\ OneReadFails(faults')) =>
            /\ eret'.success
            /\ NothingElseLost(faults', edata',
                   SelectSeq(DictGet(org, "blueprints"),
                             LAMBDA bp : eargs'.blueprints = {}
                                           \/ bp.identifier \in eargs'.blueprints),
                   WantedKinds(eargs'))
       /\ (MigrateCollects /\ OneReadFails(faults')) =>
            /\ mret'.success
            /\ NothingElseLost(faults', mdata', DictGet(mdata', "blueprints"), Kinds)]_vars

\* C22's case: the export of two blueprints whose first one's scorecards read
\* failed has the first one's entity and all of the second one's records.
C22_Witness ==
    /\ epc = "done"
    /\ eret.success
    /\ ~faults.down
    /\ ~eargs.include_resources.given
    /\ ~eargs.skip_entities
    /\ Len(DictGet(edata, "blueprints")) = 2
    /\ faults.bad = {<<"get_scorecards", DictGet(edata, "blueprints")[1].identifier>>}
    /\ Len(DictGet(edata, "entities")) = 2
    /\ Len(DictGet(edata, "scorecards")) = 1
    /\ Len(DictGet(edata, "actions")) = 1

\* A warning was printed for the blueprint.
WarnedAbout(warnings, id) == \E i \in 1..Len(warnings) : warnings[i].about = id

\* Every per-blueprint read the step saw fail was warned about, except a
\* get_actions answered 410.
FailuresWarned(warnings) ==
    \A i \in 1..Len(NewCalls) :
        LET c == NewCalls[i] IN
        (c.op \in PerBlueprintReads /\ c.status # "ok")
        => (WarnedAbout(warnings, c.parent)
               <=> ~(c.op = "get_actions" /\ c.status = "410"))

\* C23: of the failures of per-blueprint reads only a get_actions answered
\* 410 passes without a warning; every failure of get_entities or of
\* get_scorecards, whatever its status and whatever the blueprint's
\* identifier, is printed as a warning for that blueprint.
C23_OnlyActionsGoneIsSilent ==
    [][/\ ExportRuns => FailuresWarned(ewarn')
       /\ MigrateCollects => FailuresWarned(mwarn')]_vars

\* The source's blueprints whose identifier is in F, in source order.
SourceBlueprintsIn(F) ==
    SelectSeq(DictGet(org, "blueprints"), LAMBDA bp : bp.identifier \in F)

\* Every per-blueprint read the step issued is for a blueprint of F.
ReadsOnlyFor(F) ==
    \A i \in 1..Len(NewCalls) :
        NewCalls[i].op \in PerBlueprintReads => NewCalls[i].parent \in F

\* C24 as stated: whatever list is given as the filter, the empty one too,
\* the snapshot's blueprints are the source's blueprints of the list and the
\* per-blueprint reads are for them only.
C24_FilterRetainsExactly ==
    [][(ExportRuns /\ eret'.success /\ eargs'.filter_given) =>
            /\ DictGet(edata', "blueprints") = SourceBlueprintsIn(eargs'.blueprints)
            /\ ReadsOnlyFor(eargs'.blueprints)]_vars

\* C24: for every non-empty blueprint filter F the blueprints retained are
\* the source's blueprints whose identifier is in F, in source order: they
\* are the snapshot's blueprints when blueprints are collected (the
\* snapshot's blueprints are empty when they are not), every per-blueprint
\* read is for one of them, every read wanted is issued for each of them when
\* the source answers, and no relation target outside F is added.  An empty
\* filter is no filter: every blueprint of the source is retained.
C24_NonEmptyFilterRetainsExactly ==
    [][(ExportRuns /\ eret'.success) =>
         LET F == eargs'.blueprints
             collected == ShouldCollect(eargs'.include_resources, "blueprints")
             retained == IF F = {} THEN DictGet(org, "blueprints") ELSE SourceBlueprintsIn(F)
         IN /\ DictGet(edata', "blueprints") = IF collected THEN retained ELSE <<>>
            /\ ReadsOnlyFor(IdsOf(retained))
            /\ faults' = NoFaults =>
                 \A i \in 1..Len(retained) : \A k \in 1..3 :
                     PerBlueprintKinds[k] \in WantedKinds(eargs')
                     => Answered(ReadOf(PerBlueprintKinds[k]), retained[i].identifier)]_vars

\* C24's case: the export with the filter [svc] of a source that holds svc
\* and db, the target of svc's relation, has kept svc alone.
C24_Witness ==
    /\ epc = "done"
    /\ eret.success
    /\ eargs.blueprints = {IdSvc}
    /\ IdsOf(DictGet(org, "blueprints")) = {IdSvc, IdDb}
    /\ IdsOf(DictGet(edata, "blueprints")) = {IdSvc}
    /\ Len(DictGet(edata, "entities")) = 1

\* How often the step called get_blueprints.
BlueprintListings ==
    Cardinality({i \in 1..Len(NewCalls) : NewCalls[i].op = "get_blueprints"})

\* C25: one run of the export calls get_blueprints exactly once when
\* blueprints, entities, scorecards or actions are to be collected, and never
\* when none of them is, whatever the include filter, the blueprint filter
\* and the source hold.
C25_BlueprintsListedOnce ==
    [][ExportRuns =>
         BlueprintListings =
            IF \E kind \in {"blueprints", "entities", "scorecards", "actions"} :
                   ShouldCollect(eargs'.include_resources, kind)
            THEN 1 ELSE 0]_vars

(***************************************************************************)
(* The bodies the replay sends.                                            *)
(***************************************************************************)
ServerManaged == {"createdBy", "updatedBy", "createdAt", "updatedAt", "id"}

\* The record less the fields.
Less(rec, fields) == [k \in DOMAIN rec \ fields |-> rec[k]]

\* Every call the step issues carries the body, and the snapshot is as it
\* was.
SendsBody(body) ==
    /\ \A i \in 1..Len(NewCalls) : NewCalls[i].body = body
    /\ idata' = idata

\* The kind of the record the replay is at.
CurrentKind == KindOrder[ipos.k]

\* C26 as stated: the create and the fallback update of a scorecard, an
\* action, an automation or a page carry the record less createdBy, updatedBy,
\* createdAt, updatedAt and id, those of the other kinds the record itself,
\* and the snapshot is not changed.
C26_BodyLessServerManagedFields ==
    [][(ipc = "replay" /\ NewCalls # <<>>) =>
         SendsBody(IF CurrentKind \in {"scorecards", "actions", "automations", "pages"}
                   THEN Less(Current, ServerManaged)
                   ELSE Current)]_vars

\* C26: the create and the fallback update of a scorecard, an action or an
\* automation carry the record less createdBy, updatedBy, createdAt,
\* updatedAt and id; those of a page carry the record less these and less
\* protected, after, section and sidebar; those of a blueprint, an entity, a
\* team or an integration carry the record itself; every other field is
\* passed through and the snapshot is not changed.
C26_BodyLessStrippedFields ==
    [][(ipc = "replay" /\ NewCalls # <<>>) =>
         SendsBody(CASE CurrentKind \in {"scorecards", "actions", "automations"} ->
                          Less(Current, ServerManaged)
                     [] CurrentKind = "pages" ->
                          Less(Current, ServerManaged
                                          \cup {"protected", "after", "section", "sidebar"})
                     [] OTHER -> Current)]_vars

\* C26's case: a scorecard with server-managed fields was created and then
\* updated with a body that has none of them and keeps its other fields.
C26_Witness ==
    \E i \in 1..Len(calls) : \E j \in 1..Len(DictGet(idata, "scorecards")) :
        LET rec == DictGet(idata, "scorecards")[j] IN
        /\ calls[i].kind = "scorecards"
        /\ calls[i].op = "update"
        /\ calls[i].status = "ok"
        /\ DOMAIN rec \cap ServerManaged # {}
        /\ DOMAIN calls[i].body = DOMAIN rec \ ServerManaged
        /\ "blueprintIdentifier" \in DOMAIN calls[i].body

(***************************************************************************)
(* Platform-managed pages.                                                 *)
(***************************************************************************)
PlatformManaged ==
    {"entity", "blueprint-entities", "home", "audit-log", "runs-history",
     "user", "team", "run", "users-and-teams"}

\* C27: a page whose type is platform-managed is passed over before any call:
\* the step issues none, changes no counter and records no error; every other
\* page that has an identifier is attempted with create_page.
C27_PlatformPagesFilteredOut ==
    [][(ipc = "replay" /\ ipos.k <= Len(KindOrder) /\ CurrentKind = "pages") =>
         IF Get(Current, "type") \in PlatformManaged
         THEN calls' = calls /\ result' = result
         ELSE ~Falsy(Get(Current, "identifier")) =>
                 /\ NewCalls # <<>>
                 /\ NewCalls[1].op = "create"
                 /\ NewCalls[1].kind = "pages"
                 /\ Get(NewCalls[1].body, "identifier") = Get(Current, "identifier")]_vars

\* C27's case: the replay of a dashboard page and an entity page is over,
\* with one call for the first and none for the second.
C27_Witness ==
    /\ ipc = "done"
    /\ iret.success
    /\ Len(DictGet(idata, "pages")) = 2
    /\ \E i, j \in 1..2 :
         /\ Get(DictGet(idata, "pages")[i], "type") = "entity"
         /\ ~Falsy(Get(DictGet(idata, "pages")[i], "identifier"))
         /\ Get(DictGet(idata, "pages")[j], "type") = "dashboard"
         /\ ~Falsy(Get(DictGet(idata, "pages")[j], "identifier"))
    /\ Len(calls) = 1
    /\ calls[1].kind = "pages"
    /\ result.errors = <<>>

(***************************************************************************)
(* The configuration's claims.                                             *)
(***************************************************************************)
\* The environment holds both credentials.
EnvCredentials ==
    /\ cenv["PORT_CLIENT_ID"] \notin {None, Text("")}
    /\ cenv["PORT_CLIENT_SECRET"] \notin {None, Text("")}

\* Neither the file nor the environment configures a default organization.
NoDefaultOrgConfigured ==
    /\ cenv["PORT_DEFAULT_ORG"] \in {None, Text("")}
    /\ \/ ~cfile.exists
       \/ "default_org" \notin DOMAIN cfile.content
       \/ cfile.content["default_org"] = None

CarriesEnvCredentials(o) ==
    /\ o.client_id = cenv["PORT_CLIENT_ID"]
    /\ o.client_secret = cenv["PORT_CLIENT_SECRET"]

\* C28: with PORT_CLIENT_ID and PORT_CLIENT_SECRET in the environment, load
\* returns a configuration whose default organization carries the
\* environment's credentials; when no default_org is configured, that
\* organization is named "default" and default_org is "default".
C28_EnvCredentialsOverride ==
    (cpc = "done" /\ EnvCredentials) =>
        /\ cret.raised = None
        /\ cret.default_org \in DOMAIN cret.organizations
        /\ CarriesEnvCredentials(cret.organizations[cret.default_org])
        /\ NoDefaultOrgConfigured => cret.default_org = Text("default")

(***************************************************************************)
(* The replay's accounting.                                                *)
(***************************************************************************)
\* The word an error string of the kind begins with.
LabelOf(kind) ==
    CASE kind = "blueprints" -> "Blueprint"
      [] kind = "entities" -> "Entity"
      [] kind = "scorecards" -> "Scorecard"
      [] kind = "actions" -> "Action"
      [] kind = "teams" -> "Team"
      [] kind = "automations" -> "Automation"
      [] kind = "pages" -> "Page"
      [] kind = "integrations" -> "Integration"

\* <kind>_created + <kind>_updated + the error strings of the kind; there is
\* no integrations_created.
Accounted(kind) ==
    (IF kind = "integrations" THEN 0 ELSE result.counts[kind \o "_created"])
    + result.counts[kind \o "_updated"]
    + Cardinality(ErrorsOf(result, LabelOf(kind)))

\* The records of the kind the replay has gone past.
ProcessedOf(kind) ==
    LET n == Len(DictGet(idata, kind))
    IN IF ipc = "replay"
       THEN IF RankOf(kind) < ipos.k THEN n
            ELSE IF RankOf(kind) = ipos.k THEN ipos.i - 1
            ELSE 0
       ELSE IF ipc = "done" /\ iret.success /\ ~iargs.dry_run THEN n
       ELSE 0

\* The kind's block is run.
Imported(kind) ==
    /\ iargs.include_resources.given => kind \in iargs.include_resources.kinds
    /\ kind = "entities" => ~iargs.skip_entities

\* The record is attempted: it has its identifier and is neither a system
\* blueprint nor a platform-managed page.
Attempted(kind, rec) ==
    IF kind = "pages"
    THEN ~Falsy(Get(rec, "identifier")) /\ Get(rec, "type") \notin PlatformManaged
    ELSE Replayable(kind, rec)

AttemptedOf(kind) ==
    IF Imported(kind)
    THEN Cardinality({i \in 1..ProcessedOf(kind) : Attempted(kind, DictGet(idata, kind)[i])})
    ELSE 0

\* C29: at every point of a replay and for every kind, created + updated +
\* errors of the kind never exceeds the records of the kind gone past, and
\* equals the number of those that were attempted: each attempted record is
\* counted exactly once, at the end as well.
C29_EachRecordAccountedOnce ==
    \A kind \in Kinds :
        /\ Accounted(kind) <= ProcessedOf(kind)
        /\ Accounted(kind) = AttemptedOf(kind)

\* C29's case: a finished replay of two records of one kind, one passed over
\* and one that ended as an error, beside a finished replay of two kinds, one
\* record created and one updated.
C29_Witness ==
    /\ ipc = "done"
    /\ iret.success
    /\ ~iargs.dry_run
    /\ \/ \E kind \in Kinds :
            /\ Len(DictGet(idata, kind)) = 2
            /\ Accounted(kind) = 1
            /\ Cardinality(ErrorsOf(result, LabelOf(kind))) = 1
       \/ \E kind \in Kinds \ {"integrations"} :
            /\ Len(DictGet(idata, kind)) = 2
            /\ result.counts[kind \o "_created"] = 1
            /\ result.counts[kind \o "_updated"] = 1

(***************************************************************************)
(* What a migration writes.                                                *)
(***************************************************************************)
\* The call is a read.
IsRead(c) == c.op \in ReadOps \cup {"get"}

\* The call is create_blueprint or create_entity on the target.
IsTargetCreate(c) ==
    /\ c.client = "target"
    /\ c.op = "create"
    /\ c.kind \in {"blueprints", "entities"}

\* The call is the lookup or the creation of an entity on the target.
IsEntityCall(c) == c.client = "target" /\ c.kind = "entities"

====
